---- MODULE Spec2Model ----
(***************************************************************************)
(* Model of the medassist backend: the MCP tool executor                   *)
(* (backend/app/mcp_server.py), the agent loop and its session store       *)
(* (backend/app/agent.py) and the REST appointment routes                  *)
(* (backend/app/routers/appointments.py).                                  *)
(*                                                                         *)
(* Data abstraction                                                        *)
(*   - a UUID is a pair <<kind, n>>; <<"bad", 0>> is a string that         *)
(*     uuid.UUID() rejects;                                                *)
(*   - a text that the code searches with ILIKE is a sequence of           *)
(*     one-character strings;                                              *)
(*   - a datetime is a number of minutes, day * 1440 + minute of day, and  *)
(*     day 0 is a Monday;                                                  *)
(*   - a Python dict is a function whose DOMAIN is its key set.            *)
(***************************************************************************)
EXTENDS Integers, Sequences, FiniteSets, TLC

VARIABLES
    doctors,        \* table doctors: sequence of Doctor rows
    appointments,   \* table appointments: sequence of Appointment rows
    conversations,  \* table conversation_history (committed rows)
    prompts,        \* table prompt_history (committed rows)
    calls,          \* in-flight process_message invocations, per request slot
    last            \* outcome of the last completed top-level operation

vars == <<doctors, appointments, conversations, prompts, calls, last>>

----------------------------------------------------------------------------
(* Bounds of the exploration *)

MaxAppts == 2          \* appointment rows created in one behaviour
MaxRounds == 2         \* tool rounds of one process_message in SpecLoop
SessionRounds == 1     \* tool rounds of one process_message in Spec
MaxPrompts == 2        \* completed process_message calls in Spec
MaxHistory == 16       \* stored turns of the session row in SpecBuild

----------------------------------------------------------------------------
(* Generic helpers *)

NoneVal == <<"None", 0>>

EmptyDict == [k \in {} |-> NoneVal]

Has(d, k) == k \in DOMAIN d

\* dict.get(k, default)
Get(d, k, default) == IF k \in DOMAIN d THEN d[k] ELSE default

\* d[k] = v on a copy of d
Put(d, k, v) == [x \in (DOMAIN d) \cup {k} |-> IF x = k THEN v ELSE d[x]]

MinDay == 1440

DayOf(t) == t \div MinDay

MinuteOf(t) == t % MinDay

\* str.lower() on the alphabet used by the names of the model
Lower(c) ==
    CASE c = "A" -> "a"
      [] c = "B" -> "b"
      [] c = "C" -> "c"
      [] OTHER -> c

LowerSeq(s) == [i \in 1..Len(s) |-> Lower(s[i])]

\* column.ilike("%" + pat + "%"): case-insensitive substring
ILike(text, pat) ==
    \E i \in 0..(Len(text) - Len(pat)) :
        \A j \in 1..Len(pat) : Lower(text[i + j]) = Lower(pat[j])

IsUUID(x) == x[1] # "bad"

----------------------------------------------------------------------------
(* Static tables: users and patient profiles of the deployment *)

UserPat1 == <<"user", 1>>
UserPat2 == <<"user", 2>>
UserDoc1 == <<"user", 3>>
UserNoProfile == <<"user", 4>>
UserDoc2 == <<"user", 5>>

\* table users (models.User): email is unique
Users ==
    { [id |-> UserPat1, email |-> "pat1@x", role |-> "patient"],
      [id |-> UserPat2, email |-> "pat2@x", role |-> "patient"],
      [id |-> UserDoc1, email |-> "doc1@x", role |-> "doctor"],
      [id |-> UserNoProfile, email |-> "nop@x", role |-> "patient"],
      [id |-> UserDoc2, email |-> "doc2@x", role |-> "doctor"] }

\* table patients (models.Patient): user_id is unique
Patients ==
    { [id |-> <<"patient", 1>>, user_id |-> UserPat1, name |-> "P1"],
      [id |-> <<"patient", 2>>, user_id |-> UserPat2, name |-> "P2"] }

NoWindows == [d \in 0..6 |-> <<>>]

\* table doctors after registration: weekly pattern by weekday (0 = monday),
\* each window a pair of minutes of the day; consultation_duration in minutes
InitDoctors ==
    << [id |-> <<"doctor", 1>>, user_id |-> UserDoc1, name |-> <<"A", "b">>,
        specialty |-> "gp",
        available_slots |-> [NoWindows EXCEPT ![0] = << [start |-> 540, end |-> 720] >>],
        consultation_duration |-> 30],
       [id |-> <<"doctor", 2>>, user_id |-> UserDoc2, name |-> <<"a", "C">>,
        specialty |-> "ent",
        available_slots |-> [NoWindows EXCEPT ![1] = << [start |-> 600, end |-> 660] >>],
        consultation_duration |-> 30] >>

\* datetime.now().date() of the run: a Monday
Today == 0

Scheduled == "scheduled"
Completed == "completed"
Cancelled == "cancelled"
NoShow == "no_show"
Rescheduled == "rescheduled"

AppointmentStatus == {Scheduled, Completed, Cancelled, NoShow, Rescheduled}

\* default=uuid.uuid4 of the n-th appointment row
ApptId(n) == <<"appt", n>>

----------------------------------------------------------------------------
(* Date and time parsing of the tool server *)

\* MCPTools._parse_date: a date argument is <<"word", w>> (today, now,
\* tomorrow, yesterday), <<"next", weekday>>, <<"iso", day>> or <<"junk", 0>>
ParseDate(d) ==
    CASE d[1] = "word" /\ d[2] \in {"today", "now"} -> Today
      [] d[1] = "word" /\ d[2] = "tomorrow" -> Today + 1
      [] d[1] = "word" /\ d[2] = "yesterday" -> Today - 1
      [] d[1] = "next" ->
            LET ahead == d[2] - (Today % 7)
            IN  Today + (IF ahead <= 0 THEN ahead + 7 ELSE ahead)
      [] d[1] = "iso" -> d[2]
      [] OTHER -> Today

\* datetime.fromisoformat(...) with the fallback MCPTools._parse_datetime: a
\* datetime argument is [iso |-> t], or [date |-> d, time |-> m] for free
\* text whose clock time is m minutes, m = -1 when the text has no time
ParseDateTime(a) ==
    IF Has(a, "iso") THEN a.iso
    ELSE ParseDate(a.date) * MinDay + (IF a.time < 0 THEN 540 ELSE a.time)

\* strftime("%I:%M %p"): 12-hour clock, the date is dropped
Fmt12(t) ==
    LET h == MinuteOf(t) \div 60
        m == MinuteOf(t) % 60
        h12 == IF h % 12 = 0 THEN 12 ELSE h % 12
    IN  <<h12, m, IF h < 12 THEN "AM" ELSE "PM">>

----------------------------------------------------------------------------
(* Tool handlers of MCPTools.  A handler outcome is                        *)
(*   [raised, val, appts]: val is the returned payload, or the exception   *)
(*   when raised; appts is the appointments table it leaves committed.     *)

Return(payload, appts) == [raised |-> FALSE, val |-> payload, appts |-> appts]

Raise(exc, appts) == [raised |-> TRUE, val |-> exc, appts |-> appts]

\* indices of the rows of a table that satisfy a predicate
Rows(table, P(_)) == {i \in DOMAIN table : P(table[i])}

TheOne(S) == CHOOSE x \in S : TRUE

\* rows of doctors matched by Doctor.name.ilike("%name%")
DoctorsByName(name) == Rows(doctors, LAMBDA d : ILike(d.name, name))

\* the scan with < in place of <= in the loop test
RECURSIVE SlotScan_Strict(_, _, _, _)
SlotScan_Strict(cur, slotEnd, dur, booked) ==
    IF cur + dur < slotEnd
    THEN (IF cur \notin booked THEN <<Fmt12(cur)>> ELSE <<>>)
         \o SlotScan_Strict(cur + dur, slotEnd, dur, booked)
    ELSE <<>>

\* the slot scan of _check_availability over one window, for duration > 0
RECURSIVE SlotScan(_, _, _, _)
SlotScan(cur, slotEnd, dur, booked) ==
    IF cur + dur <= slotEnd
    THEN (IF cur \notin booked THEN <<Fmt12(cur)>> ELSE <<>>)
         \o SlotScan(cur + dur, slotEnd, dur, booked)
    ELSE <<>>

\* the scan over every window of the day, in the order of the pattern
RECURSIVE DayScan(_, _, _, _)
DayScan(windows, day, dur, booked) ==
    IF windows = <<>> THEN <<>>
    ELSE SlotScan(day * MinDay + Head(windows).start,
                  day * MinDay + Head(windows).end, dur, booked)
         \o DayScan(Tail(windows), day, dur, booked)

\* MCPTools._check_availability(doctor_name, date)
CheckAvailability(args, appts) ==
    LET target == ParseDate(args.date)
        found == DoctorsByName(args.doctor_name)
    IN  IF Cardinality(found) > 1 THEN Raise(<<"MultipleResultsFound">>, appts)
        ELSE IF found = {} THEN
            Return([success |-> FALSE, message |-> "No doctor found",
                    available_slots |-> <<>>], appts)
        ELSE
            LET doctor == doctors[TheOne(found)]
                day_slots == doctor.available_slots[target % 7]
                booked == {appts[i].scheduled_time : i \in
                    Rows(appts, LAMBDA a :
                        /\ a.doctor_id = doctor.id
                        /\ DayOf(a.scheduled_time) = target
                        /\ a.status \in {Scheduled, Rescheduled})}
            IN  IF day_slots = <<>> THEN
                    Return([success |-> TRUE, doctor_name |-> doctor.name,
                            date |-> target, message |-> "not available",
                            available_slots |-> <<>>], appts)
                ELSE
                    Return([success |-> TRUE, doctor_name |-> doctor.name,
                            doctor_id |-> doctor.id,
                            specialty |-> doctor.specialty,
                            date |-> target, day |-> target % 7,
                            available_slots |->
                                DayScan(day_slots, target,
                                        doctor.consultation_duration, booked),
                            consultation_duration |-> doctor.consultation_duration,
                            message |-> "has slots"], appts)

\* the slot check of _schedule_appointment: rows that make the slot taken
SlotTaken(appts, doctor_id, t) ==
    Rows(appts, LAMBDA a :
        /\ a.doctor_id = doctor_id
        /\ a.scheduled_time = t
        /\ a.status = Scheduled)

\* a booking that is undone when the calendar or the mail collaborator fails
CreateBooking_Undo(appointment, doctor, patient, appts, env) ==
    IF env.cal \/ env.mail
    THEN Return([success |-> FALSE, message |-> "could not confirm"], appts)
    ELSE Return([success |-> TRUE,
                 appointment_id |-> appointment.id,
                 message |-> "booked",
                 details |-> [doctor |-> doctor.name,
                              patient |-> patient.name,
                              time |-> appointment.scheduled_time,
                              calendar_event |-> TRUE,
                              email_sent |-> TRUE]],
                Append(appts, appointment))

\* _schedule_appointment from the creation of the row on (lines 406-462):
\* the row is committed, then the calendar event and the confirmation mail
\* are tried, each inside its own try/except
CreateBooking(appointment, doctor, patient, appts, env) ==
    Return([success |-> TRUE,
            appointment_id |-> appointment.id,
            message |-> "booked",
            details |-> [doctor |-> doctor.name,
                         patient |-> patient.name,
                         time |-> appointment.scheduled_time,
                         calendar_event |-> ~env.cal,
                         email_sent |-> ~env.mail]],
           Append(appts, appointment))

\* MCPTools._schedule_appointment(doctor_name, patient_email,
\* appointment_datetime, symptoms=""); env.cal and env.mail tell whether the
\* calendar and the mail collaborator raise
ScheduleAppointment(args, appts, env) ==
    LET found == DoctorsByName(args.doctor_name)
        user == {u \in Users : u.email = args.patient_email /\ u.role = "patient"}
    IN  IF Cardinality(found) > 1 THEN Raise(<<"MultipleResultsFound">>, appts)
        ELSE IF found = {} THEN
            Return([success |-> FALSE, message |-> "No doctor found"], appts)
        ELSE IF user = {} THEN
            Return([success |-> FALSE, message |-> "No patient found"], appts)
        ELSE
            LET doctor == doctors[TheOne(found)]
                patient == {p \in Patients : p.user_id = TheOne(user).id}
                appt_time == ParseDateTime(args.appointment_datetime)
                existing == SlotTaken(appts, doctor.id, appt_time)
                appointment ==
                    [id |-> ApptId(Len(appts) + 1),
                     doctor_id |-> doctor.id,
                     patient_id |-> TheOne(patient).id,
                     scheduled_time |-> appt_time,
                     status |-> Scheduled,
                     symptoms |-> Get(args, "symptoms", <<>>),
                     google_calendar_event_id |-> ~env.cal,
                     confirmation_sent |-> ~env.mail]
            IN  IF patient = {} THEN
                    Return([success |-> FALSE,
                            message |-> "Patient profile not found"], appts)
                ELSE IF Cardinality(existing) > 1 THEN
                    Raise(<<"MultipleResultsFound">>, appts)
                ELSE IF existing # {} THEN
                    Return([success |-> FALSE,
                            message |-> "slot no longer available"], appts)
                ELSE CreateBooking(appointment, doctor, TheOne(patient),
                                   appts, env)

\* datetime.now() of the run
Now == Today * MinDay + 480

CountRows(appts, P(_)) == Cardinality(Rows(appts, P))

\* MCPTools._get_patient_stats(doctor_id, query_type, symptom=None)
GetPatientStats(args, appts) ==
    LET doctor_id == args.doctor_id
        query_type == args.query_type
        symptom == Get(args, "symptom", <<>>)
        OnDay(a, d, statuses) ==
            /\ a.doctor_id = doctor_id
            /\ DayOf(a.scheduled_time) = d
            /\ a.status \in statuses
        week_start == Now - (Today % 7) * MinDay
        Ok(query, n) == [success |-> TRUE, query |-> query, count |-> n]
    IN  IF ~IsUUID(doctor_id) THEN Raise(<<"ValueError">>, appts)
        ELSE IF Rows(doctors, LAMBDA d : d.id = doctor_id) = {} THEN
            Return([error |-> <<"Doctor not found">>], appts)
        ELSE IF query_type = "yesterday" THEN
            Return(Ok("yesterday", CountRows(appts,
                LAMBDA a : OnDay(a, Today - 1, {Completed}))), appts)
        ELSE IF query_type = "today" THEN
            Return(Ok("today", CountRows(appts,
                LAMBDA a : OnDay(a, Today, {Scheduled, Completed}))), appts)
        ELSE IF query_type = "tomorrow" THEN
            Return(Ok("tomorrow", CountRows(appts,
                LAMBDA a : OnDay(a, Today + 1, {Scheduled}))), appts)
        ELSE IF query_type = "this_week" THEN
            Return(Ok("this_week", CountRows(appts, LAMBDA a :
                /\ a.doctor_id = doctor_id
                /\ a.scheduled_time >= week_start
                /\ a.scheduled_time <= week_start + 6 * MinDay)), appts)
        ELSE IF query_type = "by_symptom" /\ symptom # <<>> THEN
            Return(Ok("by_symptom", CountRows(appts, LAMBDA a :
                /\ a.doctor_id = doctor_id
                /\ ILike(a.symptoms, symptom))), appts)
        ELSE Return([error |-> <<"Invalid query type">>], appts)

\* MCPTools._send_report(doctor_id, report_content, channel); env.notify
\* tells whether the notification collaborator raises
SendReport(args, appts, env) ==
    IF args.channel \notin {"slack", "whatsapp", "in_app"} THEN
        Return([success |-> FALSE, message |-> "Unknown channel"], appts)
    ELSE IF env.notify THEN
        Return([success |-> FALSE, message |-> "Failed to send report"], appts)
    ELSE Return([success |-> TRUE, channel |-> args.channel,
                 message |-> "Report sent"], appts)

\* MCPTools._reschedule_appointment(appointment_id, new_datetime,
\* notify_patient=True).  The module imports Doctor, Patient, Appointment and
\* AppointmentStatus only (mcp_server.py:14): the name User read on the
\* notification path is unbound, so that path raises NameError after the
\* commit.
RescheduleAppointment(args, appts, env) ==
    LET found == Rows(appts, LAMBDA a : a.id = args.appointment_id)
        new_time == ParseDateTime(args.new_datetime)
        moved == [appts EXCEPT ![TheOne(found)].scheduled_time = new_time,
                               ![TheOne(found)].status = Rescheduled]
        patient == {p \in Patients : p.id = appts[TheOne(found)].patient_id}
    IN  IF ~IsUUID(args.appointment_id) THEN Raise(<<"ValueError">>, appts)
        ELSE IF found = {} THEN
            Return([success |-> FALSE, message |-> "Appointment not found"], appts)
        ELSE IF Get(args, "notify_patient", TRUE) /\ patient # {} THEN
            Raise(<<"NameError">>, moved)
        ELSE Return([success |-> TRUE, message |-> "rescheduled",
                     new_time |-> new_time], moved)

\* MCPTools._get_all_doctors()
GetAllDoctors(appts) ==
    Return([success |-> TRUE,
            doctors |-> [i \in DOMAIN doctors |->
                [id |-> doctors[i].id, name |-> doctors[i].name,
                 specialty |-> doctors[i].specialty,
                 consultation_duration |-> doctors[i].consultation_duration]],
            count |-> Len(doctors), message |-> "Found doctors"], appts)

\* the rows of a table at the indices in S, in table order
RECURSIVE SelectRows(_, _, _)
SelectRows(table, S, i) ==
    IF i > Len(table) THEN <<>>
    ELSE (IF i \in S THEN <<table[i]>> ELSE <<>>) \o SelectRows(table, S, i + 1)

\* MCPTools._get_appointment_details(appointment_id=None, patient_email=None,
\* doctor_id=None, date_range=None): patient_email is accepted and not used
GetAppointmentDetails(args, appts) ==
    LET appointment_id == Get(args, "appointment_id", NoneVal)
        doctor_id == Get(args, "doctor_id", NoneVal)
        date_range == Get(args, "date_range", "")
        week_start == Now - (Today % 7) * MinDay
        next_start == Now + (7 - (Today % 7)) * MinDay
        InRange(a) ==
            CASE date_range = "" -> TRUE
              [] date_range = "today" -> DayOf(a.scheduled_time) = Today
              [] date_range = "tomorrow" -> DayOf(a.scheduled_time) = Today + 1
              [] date_range = "this_week" ->
                    /\ a.scheduled_time >= week_start
                    /\ a.scheduled_time <= week_start + 6 * MinDay
              [] date_range = "next_week" ->
                    /\ a.scheduled_time >= next_start
                    /\ a.scheduled_time <= next_start + 6 * MinDay
        hits == Rows(appts, LAMBDA a :
                    /\ appointment_id = NoneVal \/ a.id = appointment_id
                    /\ doctor_id = NoneVal \/ a.doctor_id = doctor_id
                    /\ InRange(a))
        listed == SelectRows(appts, hits, 1)
    IN  IF appointment_id # NoneVal /\ ~IsUUID(appointment_id)
        THEN Raise(<<"ValueError">>, appts)
        ELSE IF doctor_id # NoneVal /\ ~IsUUID(doctor_id)
        THEN Raise(<<"ValueError">>, appts)
        ELSE IF date_range \notin {"", "today", "tomorrow", "this_week", "next_week"}
        THEN Raise(<<"UnboundLocalError">>, appts)
        ELSE Return([success |-> TRUE,
                     appointments |-> [i \in DOMAIN listed |->
                        [id |-> listed[i].id, doctor_id |-> listed[i].doctor_id,
                         patient_id |-> listed[i].patient_id,
                         time |-> listed[i].scheduled_time,
                         status |-> listed[i].status]],
                     count |-> Len(listed)], appts)

\* a cancellation that answers success and leaves the status as it is
CancelAppointment_Keep(args, appts, env) ==
    LET found == Rows(appts, LAMBDA a : a.id = args.appointment_id)
    IN  IF ~IsUUID(args.appointment_id) THEN Raise(<<"ValueError">>, appts)
        ELSE IF found = {} THEN
            Return([success |-> FALSE, message |-> "Appointment not found"], appts)
        ELSE Return([success |-> TRUE, message |-> "cancelled"], appts)

\* MCPTools._cancel_appointment(appointment_id, reason="", notify_patient=True)
CancelAppointment(args, appts, env) ==
    LET found == Rows(appts, LAMBDA a : a.id = args.appointment_id)
    IN  IF ~IsUUID(args.appointment_id) THEN Raise(<<"ValueError">>, appts)
        ELSE IF found = {} THEN
            Return([success |-> FALSE, message |-> "Appointment not found"], appts)
        ELSE Return([success |-> TRUE, message |-> "cancelled"],
                    [appts EXCEPT ![TheOne(found)].status = Cancelled])

----------------------------------------------------------------------------
(* MCPTools.execute_tool *)

\* the keys of tool_map
ToolNames ==
    {"check_doctor_availability", "schedule_appointment",
     "get_patient_statistics", "send_doctor_report", "reschedule_appointment",
     "get_all_doctors", "get_appointment_details", "cancel_appointment"}

\* parameters without a default in the handler's signature
Required(name) ==
    CASE name = "check_doctor_availability" -> {"doctor_name", "date"}
      [] name = "schedule_appointment" ->
            {"doctor_name", "patient_email", "appointment_datetime"}
      [] name = "get_patient_statistics" -> {"doctor_id", "query_type"}
      [] name = "send_doctor_report" -> {"doctor_id", "report_content", "channel"}
      [] name = "reschedule_appointment" -> {"appointment_id", "new_datetime"}
      [] name = "get_all_doctors" -> {}
      [] name = "get_appointment_details" -> {}
      [] name = "cancel_appointment" -> {"appointment_id"}

\* parameters with a default in the handler's signature
Optional(name) ==
    CASE name = "check_doctor_availability" -> {}
      [] name = "schedule_appointment" -> {"symptoms"}
      [] name = "get_patient_statistics" -> {"symptom"}
      [] name = "send_doctor_report" -> {}
      [] name = "reschedule_appointment" -> {"notify_patient"}
      [] name = "get_all_doctors" -> {}
      [] name = "get_appointment_details" ->
            {"appointment_id", "patient_email", "doctor_id", "date_range"}
      [] name = "cancel_appointment" -> {"reason", "notify_patient"}

\* tool_map[tool_name](**arguments): Python binds the keywords first and
\* raises TypeError for a missing or an unexpected one
CallHandler(name, args, appts, env) ==
    IF ~(Required(name) \subseteq DOMAIN args)
       \/ ~(DOMAIN args \subseteq Required(name) \cup Optional(name))
    THEN Raise(<<"TypeError">>, appts)
    ELSE CASE name = "check_doctor_availability" -> CheckAvailability(args, appts)
           [] name = "schedule_appointment" -> ScheduleAppointment(args, appts, env)
           [] name = "get_patient_statistics" -> GetPatientStats(args, appts)
           [] name = "send_doctor_report" -> SendReport(args, appts, env)
           [] name = "reschedule_appointment" -> RescheduleAppointment(args, appts, env)
           [] name = "get_all_doctors" -> GetAllDoctors(appts)
           [] name = "get_appointment_details" -> GetAppointmentDetails(args, appts)
           [] name = "cancel_appointment" -> CancelAppointment(args, appts, env)

\* execute_tool without its try/except: a handler exception escapes
ExecuteTool_NoCatch(name, args, appts, env) ==
    IF name \notin ToolNames
    THEN Return([error |-> <<"Unknown tool", name>>], appts)
    ELSE CallHandler(name, args, appts, env)

\* MCPTools.execute_tool(tool_name, arguments): the outcome keeps raised, so
\* that an exception escaping the executor would be visible
ExecuteTool(name, args, appts, env) ==
    IF name \notin ToolNames
    THEN Return([error |-> <<"Unknown tool", name>>], appts)
    ELSE LET out == CallHandler(name, args, appts, env)
         IN  IF out.raised
             THEN Return([error |-> out.val], out.appts)
             ELSE out

----------------------------------------------------------------------------
(* REST appointment routes (routers/appointments.py).  An outcome is       *)
(* [http, appts]: the status code of the response and the table committed. *)

Http(code, appts) == [http |-> code, appts |-> appts]

\* create_appointment(appointment_data, current_user)
RestCreateAppointment(data, current_user, appts) ==
    LET doctor == Rows(doctors, LAMBDA d : d.id = data.doctor_id)
        own == {p \in Patients : p.user_id = current_user.id}
        named == {p \in Patients : p.id = Get(data, "patient_id", NoneVal)}
        patient == IF current_user.role = "patient" THEN own ELSE named
        existing == Rows(appts, LAMBDA a :
                        /\ a.doctor_id = data.doctor_id
                        /\ a.scheduled_time = data.scheduled_time
                        /\ a.status \in {Scheduled, Rescheduled})
        appointment ==
            [id |-> ApptId(Len(appts) + 1),
             doctor_id |-> data.doctor_id,
             patient_id |-> TheOne(patient).id,
             scheduled_time |-> data.scheduled_time,
             status |-> Scheduled,
             symptoms |-> Get(data, "symptoms", <<>>),
             google_calendar_event_id |-> TRUE,
             confirmation_sent |-> TRUE]
    IN  IF doctor = {} THEN Http(404, appts)
        ELSE IF current_user.role # "patient" /\ ~Has(data, "patient_id")
        THEN Http(400, appts)
        ELSE IF patient = {} THEN Http(404, appts)
        ELSE IF Cardinality(existing) > 1 THEN Http(500, appts)
        ELSE IF existing # {} THEN Http(400, appts)
        ELSE Http(200, Append(appts, appointment))

\* update_appointment(appointment_id, update_data): update is the dict of
\* the fields the request sets (model_dump(exclude_unset=True))
RestUpdateAppointment(appointment_id, update, appts) ==
    LET found == Rows(appts, LAMBDA a : a.id = appointment_id)
        old == appts[TheOne(found)]
        moves == Has(update, "scheduled_time")
                    /\ update.scheduled_time # old.scheduled_time
        update_dict == IF moves THEN Put(update, "status", Rescheduled) ELSE update
        new == [k \in DOMAIN old |->
                    IF k \in DOMAIN update_dict THEN update_dict[k] ELSE old[k]]
    IN  IF found = {} THEN Http(404, appts)
        ELSE Http(200, [appts EXCEPT ![TheOne(found)] = new])

\* cancel_appointment(appointment_id, reason, current_user)
RestCancelAppointment(appointment_id, current_user, appts) ==
    LET found == Rows(appts, LAMBDA a : a.id = appointment_id)
        own == {p \in Patients : p.user_id = current_user.id}
    IN  IF found = {} THEN Http(404, appts)
        ELSE IF current_user.role = "patient"
                /\ (own = {} \/ appts[TheOne(found)].patient_id # TheOne(own).id)
        THEN Http(403, appts)
        ELSE Http(200, [appts EXCEPT ![TheOne(found)].status = Cancelled])

----------------------------------------------------------------------------
(* The agent (agent.py): session store and conversation assembler *)

\* the slice conversation.messages[-10:] of _build_messages
HistoryWindow == 10

Procs == {1, 2}

IdleCall == [pc |-> "idle"]

\* s[:n] in place of s[-n:]
LastN_First(s, n) == SubSeq(s, 1, IF Len(s) > n THEN n ELSE Len(s))

\* s[-n:]
LastN(s, n) == SubSeq(s, IF Len(s) > n THEN Len(s) - n + 1 ELSE 1, Len(s))

\* DoctorAssistantAgent._get_user_context(session, user_id, user_role)
GetUserContext(user_id, user_role) ==
    LET user == {u \in Users : u.id = user_id}
        patient == {q \in Patients : q.user_id = user_id}
        doctor == Rows(doctors, LAMBDA d : d.user_id = user_id)
        base == [user_email |-> TheOne(user).email]
    IN  IF user = {} THEN EmptyDict
        ELSE IF user_role = "patient" /\ patient # {} THEN
            [user_email |-> TheOne(user).email,
             patient_name |-> TheOne(patient).name,
             patient_id |-> TheOne(patient).id]
        ELSE IF user_role = "doctor" /\ doctor # {} THEN
            [user_email |-> TheOne(user).email,
             doctor_name |-> doctors[TheOne(doctor)].name,
             doctor_id |-> doctors[TheOne(doctor)].id,
             specialty |-> doctors[TheOne(doctor)].specialty]
        ELSE base

\* DoctorAssistantAgent._get_system_prompt(user_role, user_context): the
\* role-specific text and, for a non-empty context, its serialisation
GetSystemPrompt(user_role, user_context) ==
    <<"system",
      IF user_role \in {"patient", "doctor"} THEN user_role ELSE "",
      user_context>>

\* DoctorAssistantAgent._build_messages(conversation, user_message,
\* user_role, user_context)
BuildMessages(conv_messages, user_message, user_role, user_context) ==
    LET history == LastN(conv_messages, HistoryWindow)
    IN  << [role |-> "system",
            content |-> GetSystemPrompt(user_role, user_context)] >>
        \o [i \in 1..Len(history) |->
                [role |-> history[i].role, content |-> history[i].content]]
        \o << [role |-> "user", content |-> user_message] >>

\* the SELECT of _get_or_create_conversation: active rows of the pair
ActiveRows(convs, user_id, session_id) ==
    Rows(convs, LAMBDA c :
        /\ c.user_id = user_id
        /\ c.session_id = session_id
        /\ c.is_active)

\* the SELECT of clear_conversation: every row of the pair
SessionRows(convs, user_id, session_id) ==
    Rows(convs, LAMBDA c : c.user_id = user_id /\ c.session_id = session_id)

\* an unparsable payload handed on under a key of its own
ParseArguments_KeepRaw(raw) ==
    IF Has(raw, "json") THEN raw.json ELSE [raw |-> raw.text]

\* json.loads(tool_call.function.arguments) with its except branch: a raw
\* payload is [json |-> dict], or [text |-> ...] when it is not JSON
ParseArguments(raw) == IF Has(raw, "json") THEN raw.json ELSE EmptyDict

DoctorTools ==
    {"get_patient_statistics", "send_doctor_report", "get_appointment_details"}

\* injection without the "doctor_id" not in arguments test
InjectArguments_Overwrite(tool_name, arguments, user_role, user_id, context) ==
    LET a1 == IF /\ user_role = "doctor"
                 /\ tool_name \in DoctorTools
                 /\ Has(context, "doctor_id")
              THEN Put(arguments, "doctor_id", context["doctor_id"])
              ELSE arguments
        user == {u \in Users : u.id = user_id}
        a2 == IF /\ user_role = "patient"
                 /\ ~Has(a1, "patient_email")
                 /\ tool_name = "schedule_appointment"
                 /\ user # {}
              THEN Put(a1, "patient_email", TheOne(user).email)
              ELSE a1
    IN  IF /\ tool_name = "schedule_appointment"
           /\ ~Has(a2, "doctor_name")
           /\ Has(context, "last_doctor_name")
        THEN Put(a2, "doctor_name", context["last_doctor_name"])
        ELSE a2

\* injection in which the last doctor name replaces the one the model gave
InjectArguments_StaleName(tool_name, arguments, user_role, user_id, context) ==
    LET a1 == IF /\ user_role = "doctor"
                 /\ ~Has(arguments, "doctor_id")
                 /\ tool_name \in DoctorTools
                 /\ Has(context, "doctor_id")
              THEN Put(arguments, "doctor_id", context["doctor_id"])
              ELSE arguments
        user == {u \in Users : u.id = user_id}
        a2 == IF /\ user_role = "patient"
                 /\ ~Has(a1, "patient_email")
                 /\ tool_name = "schedule_appointment"
                 /\ user # {}
              THEN Put(a1, "patient_email", TheOne(user).email)
              ELSE a1
    IN  IF /\ tool_name = "schedule_appointment"
           /\ Has(context, "last_doctor_name")
        THEN Put(a2, "doctor_name", context["last_doctor_name"])
        ELSE a2

\* process_message lines 190-201 and 212-215: contextual argument injection
InjectArguments(tool_name, arguments, user_role, user_id, context) ==
    LET a1 == IF /\ user_role = "doctor"
                 /\ ~Has(arguments, "doctor_id")
                 /\ tool_name \in DoctorTools
                 /\ Has(context, "doctor_id")
              THEN Put(arguments, "doctor_id", context["doctor_id"])
              ELSE arguments
        user == {u \in Users : u.id = user_id}
        a2 == IF /\ user_role = "patient"
                 /\ ~Has(a1, "patient_email")
                 /\ tool_name = "schedule_appointment"
                 /\ user # {}
              THEN Put(a1, "patient_email", TheOne(user).email)
              ELSE a1
    IN  IF /\ tool_name = "schedule_appointment"
           /\ ~Has(a2, "doctor_name")
           /\ Has(context, "last_doctor_name")
        THEN Put(a2, "doctor_name", context["last_doctor_name"])
        ELSE a2

\* capture after every successful tool, a booking included
CaptureContext_AnyTool(tool_name, result, context) ==
    IF Get(result, "success", FALSE)
    THEN Put(Put(Put(Put(context,
            "last_doctor_id", Get(result, "doctor_id", NoneVal)),
            "last_doctor_name", Get(result, "doctor_name", NoneVal)),
            "last_date", Get(result, "date", -1)),
            "available_slots", Get(result, "available_slots", <<>>))
    ELSE context

\* process_message lines 204-210: context capture after an availability check
CaptureContext(tool_name, result, context) ==
    IF /\ tool_name = "check_doctor_availability"
       /\ Get(result, "success", FALSE)
       /\ Has(result, "doctor_id")
    THEN Put(Put(Put(Put(context,
            "last_doctor_id", result.doctor_id),
            "last_doctor_name", Get(result, "doctor_name", NoneVal)),
            "last_date", Get(result, "date", -1)),
            "available_slots", Get(result, "available_slots", <<>>))
    ELSE context

----------------------------------------------------------------------------
(* State machine *)

Init ==
    /\ doctors = InitDoctors
    /\ appointments = <<>>
    /\ conversations = <<>>
    /\ prompts = <<>>
    /\ calls = [p \in Procs |-> IdleCall]
    /\ last = [op |-> "init"]

\* a direct call of MCPTools.execute_tool(tool_name, arguments)
ExecuteToolCall(tool_name, arguments, env) ==
    LET out == ExecuteTool(tool_name, arguments, appointments, env)
    IN  /\ Len(out.appts) <= MaxAppts
        /\ appointments' = out.appts
        /\ last' = [op |-> "execute_tool", name |-> tool_name,
                    args |-> arguments, raised |-> out.raised,
                    result |-> out.val]
        /\ UNCHANGED <<doctors, conversations, prompts, calls>>

\* POST /api/appointments/
RestCreate(data, current_user) ==
    LET out == RestCreateAppointment(data, current_user, appointments)
    IN  /\ Len(out.appts) <= MaxAppts
        /\ appointments' = out.appts
        /\ last' = [op |-> "rest_create", args |-> data, http |-> out.http]
        /\ UNCHANGED <<doctors, conversations, prompts, calls>>

\* PUT /api/appointments/{appointment_id}
RestUpdate(appointment_id, update) ==
    LET out == RestUpdateAppointment(appointment_id, update, appointments)
    IN  /\ appointments' = out.appts
        /\ last' = [op |-> "rest_update", id |-> appointment_id,
                    args |-> update, http |-> out.http]
        /\ UNCHANGED <<doctors, conversations, prompts, calls>>

\* DELETE /api/appointments/{appointment_id}
RestCancel(appointment_id, current_user) ==
    LET out == RestCancelAppointment(appointment_id, current_user, appointments)
    IN  /\ appointments' = out.appts
        /\ last' = [op |-> "rest_cancel", id |-> appointment_id,
                    http |-> out.http]
        /\ UNCHANGED <<doctors, conversations, prompts, calls>>

\* session_id of the request, or str(uuid.uuid4()) when it has none
SessionIdOf(p, sid) ==
    IF sid = NoneVal THEN <<"uuid4", p * 100 + Len(prompts)>> ELSE sid

\* a row whose is_active column defaults to False
NewConversation_Inactive(user_id, session_id) ==
    [user_id |-> user_id, session_id |-> session_id, messages |-> <<>>,
     context |-> EmptyDict, is_active |-> FALSE]

\* ConversationHistory(user_id=..., session_id=..., messages=[], context={})
\* with the column default is_active=True
NewConversation(user_id, session_id) ==
    [user_id |-> user_id, session_id |-> session_id, messages |-> <<>>,
     context |-> EmptyDict, is_active |-> TRUE]

\* DoctorAssistantAgent._get_or_create_conversation(session, user_id,
\* session_id, user_role) on the rows the database session sees: the row it
\* returns and the rows the session sees after the flush
GetOrCreateConversation(convs, user_id, session_id) ==
    LET active == ActiveRows(convs, user_id, session_id)
    IN  IF Cardinality(active) > 1
        THEN [raised |-> TRUE, row |-> 0, convs |-> convs]
        ELSE IF active = {}
        THEN [raised |-> FALSE, row |-> Len(convs) + 1,
              convs |-> Append(convs, NewConversation(user_id, session_id))]
        ELSE [raised |-> FALSE, row |-> TheOne(active), convs |-> convs]

\* process_message up to its first model invocation (lines 125-164); row is
\* the committed row the call loaded, 0 when its row is a pending INSERT
PMBegin(p, user, sid, user_message) ==
    LET session_id == SessionIdOf(p, sid)
        got == GetOrCreateConversation(conversations, user.id, session_id)
        conversation == got.convs[got.row]
        user_context == GetUserContext(user.id, user.role)
        doctor == Rows(doctors, LAMBDA d : d.user_id = user.id)
        context == IF user.role = "doctor" /\ doctor # {}
                   THEN Put(Put(conversation.context,
                            "doctor_id", doctors[TheOne(doctor)].id),
                            "doctor_name", doctors[TheOne(doctor)].name)
                   ELSE conversation.context
    IN  /\ calls[p].pc = "idle"
        /\ IF got.raised
           THEN /\ last' = [op |-> "process_message", p |-> p,
                            raised |-> TRUE, error |-> <<"MultipleResultsFound">>,
                            user_id |-> user.id, session_id |-> session_id]
                /\ UNCHANGED calls
           ELSE /\ calls' = [calls EXCEPT ![p] =
                        [pc |-> "await_model",
                         user_id |-> user.id,
                         user_role |-> user.role,
                         session_id |-> session_id,
                         user_message |-> user_message,
                         row |-> IF got.row > Len(conversations) THEN 0 ELSE got.row,
                         conv_messages |-> Append(conversation.messages,
                            [role |-> "user", content |-> user_message,
                             timestamp |-> Now]),
                         conv_context |-> conversation.context,
                         context_modified |-> FALSE,
                         context |-> context,
                         messages |-> BuildMessages(conversation.messages,
                                        user_message, user.role, user_context),
                         assistant |-> [content |-> <<>>, tool_calls |-> <<>>],
                         pending |-> <<>>,
                         tool_results |-> <<>>,
                         tools_used |-> <<>>,
                         executed |-> <<>>,
                         model_calls |-> 0]]
                /\ last' = [op |-> "begin", p |-> p]
        /\ UNCHANGED <<doctors, appointments, conversations, prompts>>

\* the fixed text used when the model's final content is empty
Apology == <<"apology">>

\* a loop with a cap: after one tool round a further tool request ends the
\* call with the fixed apology and without a commit
ModelRequestsTools_Capped(p, content, tool_calls) ==
    LET c == calls[p]
    IN  /\ c.pc = "await_model"
        /\ tool_calls # <<>>
        /\ IF c.model_calls >= 1
           THEN /\ calls' = [calls EXCEPT ![p] = IdleCall]
                /\ last' = [op |-> "process_message", p |-> p, raised |-> FALSE,
                            user_id |-> c.user_id, user_role |-> c.user_role,
                            row |-> c.row, model_calls |-> c.model_calls + 1,
                            messages |-> c.messages, executed |-> c.executed,
                            result |-> [message |-> Apology,
                                        session_id |-> c.session_id,
                                        tools_used |-> c.tools_used,
                                        context |-> c.context]]
           ELSE /\ calls' = [calls EXCEPT ![p] =
                        [c EXCEPT !.pc = "execute_tools",
                                  !.assistant = [content |-> content,
                                                 tool_calls |-> tool_calls],
                                  !.pending = tool_calls,
                                  !.tool_results = <<>>,
                                  !.model_calls = c.model_calls + 1]]
                /\ last' = [op |-> "model", p |-> p]
        /\ UNCHANGED <<doctors, appointments, conversations, prompts>>

\* a response of which only the first tool call is taken up
ModelRequestsTools_FirstOnly(p, content, tool_calls) ==
    LET c == calls[p]
    IN  /\ c.pc = "await_model"
        /\ tool_calls # <<>>
        /\ calls' = [calls EXCEPT ![p] =
                [c EXCEPT !.pc = "execute_tools",
                          !.assistant = [content |-> content,
                                         tool_calls |-> tool_calls],
                          !.pending = <<Head(tool_calls)>>,
                          !.tool_results = <<>>,
                          !.model_calls = c.model_calls + 1]]
        /\ last' = [op |-> "model", p |-> p]
        /\ UNCHANGED <<doctors, appointments, conversations, prompts>>

\* the model returns a response that carries tool calls (line 167 or 251,
\* then the loop test of line 177)
ModelRequestsTools(p, content, tool_calls) ==
    LET c == calls[p]
    IN  /\ c.pc = "await_model"
        /\ tool_calls # <<>>
        /\ calls' = [calls EXCEPT ![p] =
                [c EXCEPT !.pc = "execute_tools",
                          !.assistant = [content |-> content,
                                         tool_calls |-> tool_calls],
                          !.pending = tool_calls,
                          !.tool_results = <<>>,
                          !.model_calls = c.model_calls + 1]]
        /\ last' = [op |-> "model", p |-> p]
        /\ UNCHANGED <<doctors, appointments, conversations, prompts>>

\* a name recorded only the first time it is used
RecordTool_Unique(tools_used, tool_name) ==
    IF \E i \in DOMAIN tools_used : tools_used[i] = tool_name
    THEN tools_used
    ELSE Append(tools_used, tool_name)

\* the tool name recorded before and after the call
RecordTool_Twice(tools_used, tool_name) ==
    Append(Append(tools_used, tool_name), tool_name)

\* tools_used.append(tool_name)
RecordTool(tools_used, tool_name) == Append(tools_used, tool_name)

\* one iteration of the for loop of lines 181-224; after the last tool call
\* of the response, lines 226-248
ExecuteNextTool(p, env) ==
    LET c == calls[p]
        tool_call == Head(c.pending)
        tool_name == tool_call.name
        arguments == InjectArguments(tool_name,
                        ParseArguments(tool_call.arguments),
                        c.user_role, c.user_id, c.context)
        out == ExecuteTool(tool_name, arguments, appointments, env)
        context == CaptureContext(tool_name, out.val, c.context)
        tool_results == Append(c.tool_results,
                            [role |-> "tool", name |-> tool_name,
                             content |-> <<"json", out.val>>,
                             tool_call_id |-> tool_call.id])
        step == [c EXCEPT !.pending = Tail(c.pending),
                          !.tools_used = RecordTool(c.tools_used, tool_name),
                          !.context = context,
                          !.tool_results = tool_results,
                          !.executed = Append(c.executed,
                                [id |-> tool_call.id, name |-> tool_name,
                                 raw |-> tool_call.arguments,
                                 arguments |-> arguments, result |-> out.val])]
        round_end == [step EXCEPT
                          !.pc = "await_model",
                          !.conv_context = context,
                          !.context_modified = TRUE,
                          !.messages = c.messages
                              \o << [role |-> "assistant",
                                     content |-> c.assistant.content,
                                     tool_calls |-> c.assistant.tool_calls] >>
                              \o tool_results]
    IN  /\ c.pc = "execute_tools"
        /\ Len(out.appts) <= MaxAppts
        /\ appointments' = out.appts
        /\ IF out.raised
           THEN /\ calls' = [calls EXCEPT ![p] = IdleCall]
                /\ last' = [op |-> "process_message", p |-> p, raised |-> TRUE,
                            error |-> out.val, user_id |-> c.user_id,
                            session_id |-> c.session_id]
           ELSE /\ calls' = [calls EXCEPT ![p] =
                        IF Tail(c.pending) = <<>> THEN round_end ELSE step]
                /\ last' = [op |-> "tool", p |-> p]
        /\ UNCHANGED <<doctors, conversations, prompts>>

\* a commit that appends the two turns of the call to the history stored at
\* the time of the commit, and inserts no second active row for a pair
ModelAnswers_Merged(p, content) ==
    LET c == calls[p]
        final_response == IF content = <<>> THEN Apology ELSE content
        turns == << [role |-> "user", content |-> c.user_message,
                     timestamp |-> Now],
                    [role |-> "assistant", content |-> final_response,
                     timestamp |-> Now, tools_used |-> c.tools_used] >>
        active == ActiveRows(conversations, c.user_id, c.session_id)
        row == IF c.row # 0 THEN c.row
               ELSE IF active # {} THEN TheOne(active)
               ELSE Len(conversations) + 1
        stored == IF row > Len(conversations)
                  THEN Append(conversations,
                              NewConversation(c.user_id, c.session_id))
                  ELSE conversations
    IN  /\ c.pc = "await_model"
        /\ conversations' =
                [stored EXCEPT
                    ![row].messages = @ \o turns,
                    ![row].context = IF c.context_modified
                                     THEN c.conv_context ELSE @]
        /\ prompts' = Append(prompts,
                [user_id |-> c.user_id, session_id |-> c.session_id,
                 prompt |-> c.user_message, response |-> final_response,
                 tools_used |-> c.tools_used, success |-> TRUE])
        /\ calls' = [calls EXCEPT ![p] = IdleCall]
        /\ last' = [op |-> "process_message", p |-> p, raised |-> FALSE,
                    user_id |-> c.user_id, user_role |-> c.user_role,
                    row |-> row,
                    model_calls |-> c.model_calls + 1,
                    messages |-> c.messages,
                    executed |-> c.executed,
                    result |-> [message |-> final_response,
                                session_id |-> c.session_id,
                                tools_used |-> c.tools_used,
                                context |-> c.context]]
        /\ UNCHANGED <<doctors, appointments>>

\* a commit that stores the tool turns of the last round with the answer
ModelAnswers_WithTools(p, content) ==
    LET c == calls[p]
        final_response == IF content = <<>> THEN Apology ELSE content
        final_messages == Append(c.conv_messages \o c.tool_results,
                            [role |-> "assistant", content |-> final_response,
                             timestamp |-> Now, tools_used |-> c.tools_used])
        inserted == [NewConversation(c.user_id, c.session_id) EXCEPT
                        !.messages = final_messages,
                        !.context = IF c.context_modified
                                    THEN c.conv_context ELSE EmptyDict]
    IN  /\ c.pc = "await_model"
        /\ conversations' =
                IF c.row = 0 THEN Append(conversations, inserted)
                ELSE [conversations EXCEPT
                        ![c.row].messages = final_messages,
                        ![c.row].context = IF c.context_modified
                                            THEN c.conv_context ELSE @]
        /\ prompts' = Append(prompts,
                [user_id |-> c.user_id, session_id |-> c.session_id,
                 prompt |-> c.user_message, response |-> final_response,
                 tools_used |-> c.tools_used, success |-> TRUE])
        /\ calls' = [calls EXCEPT ![p] = IdleCall]
        /\ last' = [op |-> "process_message", p |-> p, raised |-> FALSE,
                    user_id |-> c.user_id, user_role |-> c.user_role,
                    row |-> IF c.row = 0 THEN Len(conversations) + 1 ELSE c.row,
                    model_calls |-> c.model_calls + 1,
                    messages |-> c.messages,
                    executed |-> c.executed,
                    result |-> [message |-> final_response,
                                session_id |-> c.session_id,
                                tools_used |-> c.tools_used,
                                context |-> c.context]]
        /\ UNCHANGED <<doctors, appointments>>

\* the model returns a response without tool calls: lines 260-299, the
\* commit of the database session included
ModelAnswers(p, content) ==
    LET c == calls[p]
        final_response == IF content = <<>> THEN Apology ELSE content
        final_messages == Append(c.conv_messages,
                            [role |-> "assistant", content |-> final_response,
                             timestamp |-> Now, tools_used |-> c.tools_used])
        inserted == [NewConversation(c.user_id, c.session_id) EXCEPT
                        !.messages = final_messages,
                        !.context = IF c.context_modified
                                    THEN c.conv_context ELSE EmptyDict]
    IN  /\ c.pc = "await_model"
        /\ conversations' =
                IF c.row = 0 THEN Append(conversations, inserted)
                ELSE [conversations EXCEPT
                        ![c.row].messages = final_messages,
                        ![c.row].context = IF c.context_modified
                                            THEN c.conv_context ELSE @]
        /\ prompts' = Append(prompts,
                [user_id |-> c.user_id, session_id |-> c.session_id,
                 prompt |-> c.user_message, response |-> final_response,
                 tools_used |-> c.tools_used, success |-> TRUE])
        /\ calls' = [calls EXCEPT ![p] = IdleCall]
        /\ last' = [op |-> "process_message", p |-> p, raised |-> FALSE,
                    user_id |-> c.user_id, user_role |-> c.user_role,
                    row |-> IF c.row = 0 THEN Len(conversations) + 1 ELSE c.row,
                    model_calls |-> c.model_calls + 1,
                    messages |-> c.messages,
                    executed |-> c.executed,
                    result |-> [message |-> final_response,
                                session_id |-> c.session_id,
                                tools_used |-> c.tools_used,
                                context |-> c.context]]
        /\ UNCHANGED <<doctors, appointments>>

\* a failing call that leaves a Prompt Record with success=False behind
ModelFails_Logged(p) ==
    LET c == calls[p]
    IN  /\ c.pc = "await_model"
        /\ calls' = [calls EXCEPT ![p] = IdleCall]
        /\ prompts' = Append(prompts,
                [user_id |-> c.user_id, session_id |-> c.session_id,
                 prompt |-> c.user_message, response |-> <<>>,
                 tools_used |-> c.tools_used, success |-> FALSE])
        /\ last' = [op |-> "process_message", p |-> p, raised |-> TRUE,
                    error |-> <<"ModelBoundaryFailure">>,
                    user_id |-> c.user_id, session_id |-> c.session_id]
        /\ UNCHANGED <<doctors, appointments, conversations>>

\* the model call raises: the exception leaves process_message and the
\* database session is closed without a commit
ModelFails(p) ==
    LET c == calls[p]
    IN  /\ c.pc = "await_model"
        /\ calls' = [calls EXCEPT ![p] = IdleCall]
        /\ last' = [op |-> "process_message", p |-> p, raised |-> TRUE,
                    error |-> <<"ModelBoundaryFailure">>,
                    user_id |-> c.user_id, session_id |-> c.session_id]
        /\ UNCHANGED <<doctors, appointments, conversations, prompts>>

\* session.delete(conversation) in place of the flag
Deactivate_Delete(convs, i) ==
    [j \in 1..(Len(convs) - 1) |-> IF j < i THEN convs[j] ELSE convs[j + 1]]

\* conversation.is_active = False, committed
Deactivate(convs, i) == [convs EXCEPT ![i].is_active = FALSE]

\* DoctorAssistantAgent.clear_conversation(user_id, session_id)
ClearConversation(user_id, session_id) ==
    LET found == SessionRows(conversations, user_id, session_id)
    IN  /\ IF Cardinality(found) > 1
           THEN /\ last' = [op |-> "clear_conversation", raised |-> TRUE,
                            error |-> <<"MultipleResultsFound">>,
                            user_id |-> user_id, session_id |-> session_id]
                /\ UNCHANGED conversations
           ELSE IF found # {}
           THEN /\ conversations' = Deactivate(conversations, TheOne(found))
                /\ last' = [op |-> "clear_conversation", raised |-> FALSE,
                            result |-> TRUE,
                            user_id |-> user_id, session_id |-> session_id]
           ELSE /\ last' = [op |-> "clear_conversation", raised |-> FALSE,
                            result |-> FALSE,
                            user_id |-> user_id, session_id |-> session_id]
                /\ UNCHANGED conversations
        /\ UNCHANGED <<doctors, appointments, prompts, calls>>

\* two consecutive _get_or_create_conversation calls in one database session
\* that is closed without a commit
LoadSessionTwice(user_id, session_id) ==
    LET first == GetOrCreateConversation(conversations, user_id, session_id)
        second == GetOrCreateConversation(first.convs, user_id, session_id)
    IN  /\ last' = IF first.raised \/ second.raised
                   THEN [op |-> "load_twice", raised |-> TRUE]
                   ELSE [op |-> "load_twice", raised |-> FALSE,
                         user_id |-> user_id, session_id |-> session_id,
                         first |-> first.convs[first.row],
                         second |-> second.convs[second.row],
                         created |-> Len(second.convs) - Len(conversations)]
        /\ UNCHANGED <<doctors, appointments, conversations, prompts, calls>>

----------------------------------------------------------------------------
(* Inputs of the exploration *)

\* collaborators that work
EnvOk == [cal |-> FALSE, mail |-> FALSE, notify |-> FALSE]

Iso(t) == [iso |-> t]

\* appointment times offered to the booking operations
TimeInputs == {540, 570}

\* doctor names as a caller may type them: one doctor, the other doctor,
\* both doctors, no doctor
NameInputs == {<<"b">>, <<"C">>, <<"a">>, <<"z">>}

AppointmentIdInputs == {ApptId(n) : n \in 1..MaxAppts} \cup {<<"bad", 0>>}

\* (tool_name, arguments) pairs handed to execute_tool directly
ToolInputs ==
    {[name |-> "check_doctor_availability",
      args |-> [doctor_name |-> n, date |-> <<"iso", 0>>]] : n \in NameInputs}
    \cup
    {[name |-> "check_doctor_availability",
      args |-> [doctor_name |-> <<"b">>, date |-> d]] :
        d \in {<<"word", "tomorrow">>, <<"junk", 0>>}}
    \cup
    {[name |-> "schedule_appointment",
      args |-> [doctor_name |-> <<"b">>, patient_email |-> "pat1@x",
                appointment_datetime |-> Iso(t)]] : t \in TimeInputs}
    \cup
    {[name |-> "schedule_appointment",
      args |-> [doctor_name |-> n, patient_email |-> "pat1@x",
                appointment_datetime |-> Iso(540)]] : n \in NameInputs}
    \cup
    {[name |-> "schedule_appointment",
      args |-> [doctor_name |-> <<"b">>, patient_email |-> e,
                appointment_datetime |-> Iso(540)]] : e \in {"nop@x", "doc1@x"}}
    \cup
    {[name |-> "schedule_appointment",
      args |-> [doctor_name |-> <<"b">>, patient_email |-> "pat1@x",
                appointment_datetime |-> [date |-> <<"word", "today">>, time |-> -1]]],
     [name |-> "schedule_appointment",
      args |-> [doctor_name |-> <<"b">>, appointment_datetime |-> Iso(540)]],
     [name |-> "schedule_appointment",
      args |-> [doctor_name |-> <<"b">>, patient_email |-> "pat1@x",
                appointment_datetime |-> Iso(540), slot |-> 1]]}
    \cup
    {[name |-> "get_patient_statistics",
      args |-> [doctor_id |-> <<"doctor", 1>>, query_type |-> q]] :
        q \in {"today", "this_week", "by_symptom", "never"}}
    \cup
    {[name |-> "get_patient_statistics",
      args |-> [doctor_id |-> d, query_type |-> "today"]] :
        d \in {<<"doctor", 9>>, <<"bad", 0>>}}
    \cup
    {[name |-> "send_doctor_report",
      args |-> [doctor_id |-> <<"doctor", 1>>, report_content |-> "r",
                channel |-> ch]] : ch \in {"slack", "sms"}}
    \cup
    {[name |-> "reschedule_appointment",
      args |-> [appointment_id |-> a, new_datetime |-> Iso(t)]] :
        a \in AppointmentIdInputs, t \in TimeInputs}
    \cup
    {[name |-> "reschedule_appointment",
      args |-> [appointment_id |-> ApptId(1), new_datetime |-> Iso(540),
                notify_patient |-> FALSE]]}
    \cup
    {[name |-> "cancel_appointment", args |-> [appointment_id |-> a]] :
        a \in AppointmentIdInputs}
    \cup
    {[name |-> "get_appointment_details", args |-> a] :
        a \in {EmptyDict, [doctor_id |-> <<"doctor", 1>>, date_range |-> "today"],
               [appointment_id |-> <<"bad", 0>>], [date_range |-> "someday"]}}
    \cup
    {[name |-> "get_all_doctors", args |-> a] : a \in {EmptyDict, [limit |-> 1]}}
    \cup
    {[name |-> n, args |-> EmptyDict] : n \in {"drop_tables", ""}}

\* fields a PUT /api/appointments/{id} request sets
UpdateInputs == {[status |-> Scheduled], [scheduled_time |-> 570]}

\* the tool server and the REST routes on the appointments table
ToolCall ==
    \E call \in ToolInputs : ExecuteToolCall(call.name, call.args, EnvOk)

UpdateRequest ==
    \E a \in AppointmentIdInputs, u \in UpdateInputs : RestUpdate(a, u)

NextTools ==
    \/ ToolCall
    \/ UpdateRequest

SpecTools == Init /\ [][NextTools]_vars

\* users who chat: a patient and a doctor
ChatUsers == {u \in Users : u.id \in {UserPat1, UserDoc1}}

SessionInputs == {<<"s", 1>>}

MessageInputs == {<<"hi">>}

\* final contents the model may return: a text, or nothing
AnswerInputs == {<<"ok">>, <<>>}

Json(d) == [json |-> d]

\* tool-call requests the model may emit (name and raw argument payload)
CallMenu ==
    {[name |-> "check_doctor_availability",
      arguments |-> Json([doctor_name |-> n, date |-> <<"iso", 0>>])] :
        n \in {<<"b">>, <<"C">>, <<"z">>}}
    \cup
    {[name |-> "schedule_appointment",
      arguments |-> Json([doctor_name |-> <<"b">>,
                          appointment_datetime |-> Iso(540)])],
     [name |-> "schedule_appointment",
      arguments |-> Json([appointment_datetime |-> Iso(540)])],
     [name |-> "schedule_appointment",
      arguments |-> Json([doctor_name |-> <<"C">>, patient_email |-> "pat2@x",
                          appointment_datetime |-> Iso(570)])],
     [name |-> "get_patient_statistics",
      arguments |-> Json([query_type |-> "today"])],
     [name |-> "get_patient_statistics",
      arguments |-> Json([doctor_id |-> <<"doctor", 2>>, query_type |-> "today"])],
     [name |-> "send_doctor_report",
      arguments |-> Json([report_content |-> "r", channel |-> "slack"])],
     [name |-> "get_appointment_details", arguments |-> [text |-> "{"]],
     [name |-> "get_appointment_details",
      arguments |-> Json([doctor_id |-> <<"doctor", 2>>])],
     [name |-> "cancel_appointment",
      arguments |-> Json([appointment_id |-> ApptId(1)])],
     [name |-> "lookup", arguments |-> Json(EmptyDict)]}

\* the requests used where several messages follow one another
SessionMenu ==
    {c \in CallMenu :
        \/ c.name = "check_doctor_availability"
            /\ c.arguments.json.doctor_name \in {<<"b">>, <<"C">>}
        \/ c.name = "schedule_appointment" /\ DOMAIN c.arguments.json
                = {"appointment_datetime"}
        \/ c.name = "get_patient_statistics" /\ DOMAIN c.arguments.json
                = {"query_type"}}

\* a request with the call id the model gave it
WithId(call, id) ==
    [id |-> id, name |-> call.name, arguments |-> call.arguments]

\* the tool_calls lists of one model response over a menu: one call, an
\* availability check followed by a booking, or the same statistics twice
ResponseInputs(menu) ==
    {<<WithId(c, "call_1")>> : c \in menu}
    \cup
    {<<WithId(c, "call_1"), WithId(d, "call_2")>> :
        c \in {x \in menu : x.name = "check_doctor_availability"},
        d \in {x \in menu : x.name = "schedule_appointment"
                                /\ ~Has(x.arguments.json, "doctor_name")}}
    \cup
    {<<WithId(c, "call_1"), WithId(c, "call_2")>> :
        c \in {x \in menu : x.name = "get_patient_statistics"}}

\* a chat user sends a message in the session
SessionMessage ==
    \E u \in ChatUsers, sid \in SessionInputs, m \in MessageInputs :
        /\ Len(prompts) < MaxPrompts
        /\ PMBegin(1, u, sid, m)

\* the model asks for one tool of the session menu
SessionToolRound ==
    \E tcs \in {<<WithId(c, "call_1")>> : c \in SessionMenu} :
        /\ calls[1].pc = "await_model"
        /\ calls[1].model_calls < SessionRounds
        /\ ModelRequestsTools(1, <<>>, tcs)

\* DELETE /api/chat/session/{session_id}
SessionClear ==
    \E u \in ChatUsers, sid \in SessionInputs : ClearConversation(u.id, sid)

SessionLoad ==
    \E u \in ChatUsers, sid \in SessionInputs : LoadSessionTwice(u.id, sid)

\* Sessions over several messages: one request at a time talks to the agent,
\* and a session is cleared at any time
Next ==
    \/ SessionMessage
    \/ SessionToolRound
    \/ ExecuteNextTool(1, EnvOk)
    \/ ModelAnswers(1, <<"ok">>)
    \/ ModelFails(1)
    \/ SessionClear
    \/ SessionLoad

Spec == Init /\ [][Next]_vars

\* the first message of a user, with or without a session id
LoopMessage ==
    \E u \in ChatUsers, sid \in SessionInputs \cup {NoneVal},
       m \in MessageInputs :
        /\ prompts = <<>>
        /\ PMBegin(1, u, sid, m)

\* the model asks for the tools of one response over the whole menu
LoopToolRound ==
    \E tcs \in ResponseInputs(CallMenu) :
        /\ calls[1].pc = "await_model"
        /\ calls[1].model_calls < MaxRounds
        /\ ModelRequestsTools(1, <<>>, tcs)

LoopAnswer == \E content \in AnswerInputs : ModelAnswers(1, content)

\* One message through the loop, with every request of the menu
NextLoop ==
    \/ LoopMessage
    \/ LoopToolRound
    \/ ExecuteNextTool(1, EnvOk)
    \/ LoopAnswer
    \/ ModelFails(1)

SpecLoop == Init /\ [][NextLoop]_vars

\* a stored history of n turns as process_message writes them: user and
\* assistant turns in alternation, told apart by their position
StoredTurns(n) ==
    [i \in 1..n |->
        IF i % 2 = 1
        THEN [role |-> "user", content |-> <<"turn", i>>, timestamp |-> Now]
        ELSE [role |-> "assistant", content |-> <<"turn", i>>,
              timestamp |-> Now, tools_used |-> <<>>]]

\* a database whose one session row holds n stored turns
InitBuild ==
    /\ doctors = InitDoctors
    /\ appointments = <<>>
    /\ \E n \in 0..MaxHistory, u \in ChatUsers :
            conversations =
                << [NewConversation(u.id, <<"s", 1>>) EXCEPT
                        !.messages = StoredTurns(n)] >>
    /\ prompts = <<>>
    /\ calls = [p \in Procs |-> IdleCall]
    /\ last = [op |-> "init"]

BuildMessage ==
    \E u \in ChatUsers, sid \in SessionInputs,
       m \in MessageInputs \cup {<<"book">>, <<>>} : PMBegin(1, u, sid, m)

\* a message arrives for a session with a stored history, and the model call
\* that follows fails
NextBuild ==
    \/ BuildMessage
    \/ ModelFails(1)

SpecBuild == InitBuild /\ [][NextBuild]_vars

----------------------------------------------------------------------------
(* Claims about the tool executor *)

\* the step is a direct execute_tool call of the given tool
ToolStep(name) == last'.op = "execute_tool" /\ last'.name = name

\* C1: execute_tool never raises: an unknown tool name returns
\* {error: "Unknown tool: <name>"}, and an exception raised inside a handler,
\* a wrong or missing argument included, is returned as {error: <message>}.
C1_ExecuteToolNeverRaises ==
    [][last'.op = "execute_tool" =>
        /\ ~last'.raised
        /\ last'.name \notin ToolNames =>
                last'.result = [error |-> <<"Unknown tool", last'.name>>]
        /\ last'.name \in ToolNames =>
            LET handler == CallHandler(last'.name, last'.args, appointments, EnvOk)
            IN  /\ handler.raised => last'.result = [error |-> handler.val]
                /\ ~(Required(last'.name) \subseteq DOMAIN last'.args) =>
                        last'.result = [error |-> <<"TypeError">>]
    ]_vars

\* C1 witness: a handler raised on rows of the table and the executor
\* returned the exception as an error payload
C1_Witness ==
    /\ last.op = "execute_tool"
    /\ last.name = "reschedule_appointment"
    /\ ~last.raised
    /\ last.result = [error |-> <<"NameError">>]
    /\ appointments # <<>>

\* rows of doctor_id at time t whose status is in statuses
Held(appts, doctor_id, t, statuses) ==
    Rows(appts, LAMBDA a :
        /\ a.doctor_id = doctor_id
        /\ a.scheduled_time = t
        /\ a.status \in statuses)

\* the step is a schedule_appointment call, with every required argument,
\* that resolves one doctor and asks for a time held with one of the statuses
BookingConflict(statuses) ==
    /\ ToolStep("schedule_appointment")
    /\ Required("schedule_appointment") \subseteq DOMAIN last'.args
    /\ DOMAIN last'.args \subseteq
            Required("schedule_appointment") \cup Optional("schedule_appointment")
    /\ Cardinality(DoctorsByName(last'.args.doctor_name)) = 1
    /\ Held(appointments,
            doctors[TheOne(DoctorsByName(last'.args.doctor_name))].id,
            ParseDateTime(last'.args.appointment_datetime), statuses) # {}

\* the call was answered with success:false and stored nothing
Rejected ==
    /\ Has(last'.result, "success")
    /\ last'.result.success = FALSE
    /\ appointments' = appointments

C4_BookedSlotRejected ==
    [][BookingConflict({Scheduled, Rescheduled}) => Rejected]_vars

----------------------------------------------------------------------------
(* Claims about the agent loop and the session store *)

\* the assistant turns with tool calls of an in-flight message list
ToolRounds(messages) ==
    {i \in DOMAIN messages :
        messages[i].role = "assistant" /\ Has(messages[i], "tool_calls")}

Returned == last.op = "process_message" /\ ~last.raised

\* C2: a first model response without tool calls ends process_message after
\* exactly one model call; a response with tool calls followed by one without
\* ends it after exactly two, and a single requested tool is in tools_used
\* exactly once.
C2_LoopTermination ==
    Returned =>
        LET rounds == ToolRounds(last.messages)
        IN  /\ last.model_calls = Cardinality(rounds) + 1
            /\ rounds = {} => last.result.tools_used = <<>>
            /\ \A i \in rounds :
                (Cardinality(rounds) = 1 /\ Len(last.messages[i].tool_calls) = 1)
                    => last.result.tools_used
                            = <<last.messages[i].tool_calls[1].name>>

\* C2 witness: a call returned after one response with a single tool call
C2_Witness ==
    /\ Returned
    /\ last.model_calls = 2
    /\ Len(last.result.tools_used) = 1
    /\ Cardinality(ToolRounds(last.messages)) = 1

SessionPairs == {<<c.user_id, c.session_id>> : c \in {conversations[i] : i \in DOMAIN conversations}}

\* C5: at most one active session row exists for each (user_id, session_id),
\* and clear_conversation only flips the active flag: it deletes no row and
\* changes no stored turn or context.
C5_OneActiveSession ==
    /\ [](\A pair \in SessionPairs :
            Cardinality(ActiveRows(conversations, pair[1], pair[2])) <= 1)
    /\ [][last'.op = "clear_conversation" =>
            /\ Len(conversations') = Len(conversations)
            /\ \A i \in DOMAIN conversations :
                /\ conversations'[i].messages = conversations[i].messages
                /\ conversations'[i].context = conversations[i].context
                /\ conversations'[i].user_id = conversations[i].user_id
                /\ conversations'[i].session_id = conversations[i].session_id
                /\ conversations'[i].is_active # conversations[i].is_active
                    => (conversations[i].is_active
                        /\ conversations[i].user_id = last'.user_id
                        /\ conversations[i].session_id = last'.session_id)
       ]_vars

\* C5 witness: a cleared session id was used again, so the pair has an
\* inactive row that kept its turns and an active row
C5_Witness ==
    \E i, j \in DOMAIN conversations :
        /\ conversations[i].user_id = conversations[j].user_id
        /\ conversations[i].session_id = conversations[j].session_id
        /\ ~conversations[i].is_active
        /\ conversations[i].messages # <<>>
        /\ conversations[j].is_active

\* C6: clear_conversation returns a boolean in every state that
\* process_message and clear_conversation reach on one (user_id, session_id):
\* true after marking the session inactive, false when no row exists; it
\* never raises.
C6_ClearReturnsBool ==
    last.op = "clear_conversation" =>
        /\ ~last.raised
        /\ last.result \in BOOLEAN
        /\ last.result =
            (SessionRows(conversations, last.user_id, last.session_id) # {})

\* C7: loading a session twice in a row with no write in between returns the
\* same turn list and the same context map, and creates at most one row.
C7_LoadIdempotent ==
    (last.op = "load_twice" /\ ~last.raised) =>
        /\ last.first.messages = last.second.messages
        /\ last.first.context = last.second.context
        /\ last.created <= 1

\* C7 witness: the two loads of a session id that had no active row
C7_Witness ==
    /\ last.op = "load_twice"
    /\ ~last.raised
    /\ last.created = 1
    /\ SessionRows(conversations, last.user_id, last.session_id) # {}

\* the prompt the claim describes for a stored history and a new message
ExpectedPrompt(stored, user_message) ==
    LET n == Len(stored)
        k == IF n < 10 THEN n ELSE 10
    IN  [i \in 1..(k + 2) |->
            IF i = 1 THEN <<"system">>
            ELSE IF i = k + 2 THEN <<"user", user_message>>
            ELSE <<stored[n - k + i - 1].role, stored[n - k + i - 1].content>>]

\* an assembled prompt reduced to what the claim speaks of
PromptShape(messages) ==
    [i \in DOMAIN messages |->
        IF messages[i].role = "system" THEN <<"system">>
        ELSE IF DOMAIN messages[i] = {"role", "content"}
        THEN <<messages[i].role, messages[i].content>>
        ELSE <<"other">>]

\* the stored turns of the row an in-flight call loaded
LoadedTurns(c) == IF c.row = 0 THEN <<>> ELSE conversations[c.row].messages

\* C8: for a session with n stored turns the assembled prompt is one system
\* message, the last min(n,10) stored turns in stored order (role and content
\* only), then the new user message.
C8_HistoryWindow ==
    \A p \in Procs :
        (calls[p].pc = "await_model" /\ calls[p].model_calls = 0) =>
            PromptShape(calls[p].messages)
                = ExpectedPrompt(LoadedTurns(calls[p]), calls[p].user_message)

\* C8 witness: a prompt assembled for a session with 15 stored turns
C8_Witness ==
    /\ calls[1].pc = "await_model"
    /\ calls[1].row # 0
    /\ Len(LoadedTurns(calls[1])) = 15
    /\ Len(calls[1].messages) = 12

\* the call of request slot p is between its begin and its return
InFlight(p) == calls[p].pc # "idle"

\* C9: with role=doctor and a context map holding doctor_id=D, a call to
\* get_patient_statistics, send_doctor_report or get_appointment_details that
\* omits doctor_id is executed with doctor_id=D, and a call that carries a
\* doctor_id is executed with that value unchanged.
C9_DoctorIdInjection ==
    \A p \in Procs :
        (/\ InFlight(p)
         /\ calls[p].user_role = "doctor"
         /\ Has(calls[p].context, "doctor_id")) =>
            \A n \in DOMAIN calls[p].executed :
                LET e == calls[p].executed[n]
                    requested == ParseArguments(e.raw)
                IN  e.name \in DoctorTools =>
                        /\ DOMAIN e.arguments = DOMAIN requested \cup {"doctor_id"}
                        /\ \A k \in DOMAIN requested : e.arguments[k] = requested[k]
                        /\ ~Has(requested, "doctor_id") =>
                            e.arguments["doctor_id"] = calls[p].context["doctor_id"]

\* C9 witness: a doctor's message in which a statistics call without
\* doctor_id ran with the caller's id and one with another id kept its own
C9_Witness ==
    /\ InFlight(1)
    /\ calls[1].user_role = "doctor"
    /\ calls[1].context["doctor_id"] = <<"doctor", 1>>
    /\ \E m, n \in DOMAIN calls[1].executed :
        /\ calls[1].executed[m].name = "get_patient_statistics"
        /\ ~Has(ParseArguments(calls[1].executed[m].raw), "doctor_id")
        /\ calls[1].executed[m].arguments["doctor_id"] = <<"doctor", 1>>
        /\ calls[1].executed[n].name = "get_patient_statistics"
        /\ Has(ParseArguments(calls[1].executed[n].raw), "doctor_id")
        /\ calls[1].executed[n].arguments["doctor_id"] = <<"doctor", 2>>

\* C10: every check_doctor_availability call that succeeds captures its
\* doctor id, doctor name, resolved date and slot list into the session
\* context map, also when the doctor has no working window on that weekday.
C10_AvailabilityCaptured ==
    \A p \in Procs :
        (InFlight(p) /\ last.op = "tool" /\ last.p = p) =>
            LET e == calls[p].executed[Len(calls[p].executed)]
                context == calls[p].context
            IN  (/\ e.name = "check_doctor_availability"
                 /\ Get(e.result, "success", FALSE)) =>
                    /\ Has(context, "last_doctor_id")
                    /\ Has(context, "last_doctor_name")
                    /\ context["last_doctor_name"] = e.result.doctor_name
                    /\ Has(context, "last_date")
                    /\ context["last_date"] = e.result.date
                    /\ Has(context, "available_slots")
                    /\ context["available_slots"] = e.result.available_slots

----------------------------------------------------------------------------
(* Claims about the tool rounds of the loop *)

\* the keys that the availability capture writes
CapturedKeys ==
    {"last_doctor_id", "last_doctor_name", "last_date", "available_slots"}

\* the part of a context map under the captured keys
CapturedPart(context) ==
    [k \in CapturedKeys \cap DOMAIN context |-> context[k]]

\* request slot p has just executed a tool call
ToolDone(p) ==
    /\ calls[p].pc = "execute_tools"
    /\ last'.op = "tool"
    /\ last'.p = p

\* the tool call that the step of request slot p has executed
DoneCall(p) == calls'[p].executed[Len(calls'[p].executed)]

\* C11: the last-doctor and available-slots keys of the context map change
\* only when a check_doctor_availability call succeeds: a failed check and
\* every call of any other tool, a successful schedule_appointment included,
\* leave them unchanged, and so does every other step of the message.
C11_ContextFrame ==
    [][\A p \in Procs :
        /\ ToolDone(p) =>
            (~(/\ DoneCall(p).name = "check_doctor_availability"
               /\ Get(DoneCall(p).result, "success", FALSE))
                => CapturedPart(calls'[p].context) = CapturedPart(calls[p].context))
        /\ (InFlight(p) /\ calls'[p].pc # "idle" /\ ~ToolDone(p)) =>
                CapturedPart(calls'[p].context) = CapturedPart(calls[p].context)
    ]_vars

\* C11 witness: a booking succeeded in a message whose context holds the
\* doctor and the slots of an earlier availability check
C11_Witness ==
    /\ InFlight(1)
    /\ calls[1].executed # <<>>
    /\ LET e == calls[1].executed[Len(calls[1].executed)]
       IN  /\ e.name = "schedule_appointment"
           /\ Get(e.result, "success", FALSE)
    /\ Has(calls[1].context, "last_doctor_id")
    /\ calls[1].context["available_slots"] # <<>>

\* the names of a tool_calls list, in request order
CallNames(tool_calls) == [i \in DOMAIN tool_calls |-> tool_calls[i].name]

\* the tool names that the assistant turns of a message list request, in
\* the order of the list
RECURSIVE RequestedNames(_)
RequestedNames(messages) ==
    IF messages = <<>> THEN <<>>
    ELSE LET m == Head(messages)
         IN  (IF m.role = "assistant" /\ Has(m, "tool_calls")
              THEN CallNames(m.tool_calls) ELSE <<>>)
             \o RequestedNames(Tail(messages))

\* C12: tools_used is exactly the sequence of tool names the model requested
\* over all rounds of one process_message call, in request order and with
\* duplicates kept; the final assistant turn, the Prompt Record and the
\* returned result hold that same sequence.
C12_ToolsUsedSequence ==
    Returned =>
        LET requested == RequestedNames(last.messages)
            stored == conversations[last.row].messages
        IN  /\ last.result.tools_used = requested
            /\ stored[Len(stored)].role = "assistant"
            /\ stored[Len(stored)].tools_used = requested
            /\ prompts[Len(prompts)].tools_used = requested

\* C12 witness: a call returned after two tool rounds, the first of them
\* with the same tool twice
C12_Witness ==
    /\ Returned
    /\ last.model_calls = 3
    /\ Len(last.result.tools_used) = 3
    /\ last.result.tools_used[1] = last.result.tools_used[2]
    /\ last.result.tools_used[3] # last.result.tools_used[1]

----------------------------------------------------------------------------
(* The slot scan over the working windows a doctor may register *)

\* start and end of a working window, minutes of the day ("%H:%M")
StartInputs == {540, 545, 690}

EndInputs == {540, 600, 720, 725, 780}

\* consultation durations in minutes (schemas: consultation_duration)
DurationInputs == {15, 20, 30, 45, 50}

\* one registered doctor whose Monday window and duration are drawn from the
\* inputs, and no appointment
InitSlots ==
    /\ \E s \in StartInputs, e \in EndInputs, d \in DurationInputs :
        doctors = << [id |-> <<"doctor", 1>>, user_id |-> UserDoc1,
                      name |-> <<"A", "b">>, specialty |-> "gp",
                      available_slots |->
                        [NoWindows EXCEPT ![0] = << [start |-> s, end |-> e] >>],
                      consultation_duration |-> d] >>
    /\ appointments = <<>>
    /\ conversations = <<>>
    /\ prompts = <<>>
    /\ calls = [p \in Procs |-> IdleCall]
    /\ last = [op |-> "init"]

\* dates asked for: two Mondays and a Tuesday
DateInputs == {<<"iso", 0>>, <<"iso", 7>>, <<"iso", 1>>}

SlotsCheck ==
    \E n \in {<<"b">>, <<"a">>}, d \in DateInputs :
        ExecuteToolCall("check_doctor_availability",
                        [doctor_name |-> n, date |-> d], EnvOk)

NextSlots == SlotsCheck

SpecSlots == InitSlots /\ [][NextSlots]_vars

\* the slots the claim lists for window [s, e] and duration d
ExpectedSlots(s, e, d) ==
    LET n == IF e - s < d THEN 0 ELSE (e - s) \div d
    IN  [k \in 1..n |-> Fmt12(s + (k - 1) * d)]

\* C13: for a doctor whose window on the requested weekday is [s, e], with
\* consultation duration d > 0 and no bookings, check_doctor_availability
\* returns exactly the slots s, s+d, s+2d, ... whose end is not after e, in
\* ascending order and without repetition.
C13_SlotScan ==
    (/\ last.op = "execute_tool"
     /\ last.name = "check_doctor_availability"
     /\ appointments = <<>>
     /\ Len(doctors) = 1
     /\ Len(doctors[1].available_slots[ParseDate(last.args.date) % 7]) = 1) =>
        LET w == doctors[1].available_slots[ParseDate(last.args.date) % 7][1]
            slots == last.result.available_slots
        IN  /\ last.result.success
            /\ slots = ExpectedSlots(w.start, w.end, doctors[1].consultation_duration)
            /\ \A i, j \in DOMAIN slots : i # j => slots[i] # slots[j]

\* C13 witness: the 09:00-12:00 window with 30-minute consultations gave the
\* 6 slots from 09:00 to 11:30
C13_Witness ==
    /\ last.op = "execute_tool"
    /\ last.name = "check_doctor_availability"
    /\ appointments = <<>>
    /\ Len(doctors) = 1
    /\ doctors[1].available_slots[0] = << [start |-> 540, end |-> 720] >>
    /\ doctors[1].consultation_duration = 30
    /\ Has(last.result, "doctor_id")
    /\ last.result.available_slots =
        << <<9, 0, "AM">>, <<9, 30, "AM">>, <<10, 0, "AM">>,
           <<10, 30, "AM">>, <<11, 0, "AM">>, <<11, 30, "AM">> >>

\* the next tool call of request slot p carries a payload that is not JSON
MalformedNext(p) ==
    /\ calls[p].pc = "execute_tools"
    /\ Has(Head(calls[p].pending).arguments, "text")

\* C14: a tool-call request whose argument payload cannot be parsed is not
\* an error: the arguments are the empty map with the injection applied, the
\* tool is executed, its tool-result turn is appended and, after the last
\* call of the response, the loop goes on to the next model call.
C14_MalformedPayload ==
    [][\A p \in Procs :
        (MalformedNext(p) /\ calls'[p] # calls[p]) =>
            /\ ToolDone(p)
            /\ calls'[p].pc \in {"execute_tools", "await_model"}
            /\ DoneCall(p).id = Head(calls[p].pending).id
            /\ DoneCall(p).arguments =
                InjectArguments(DoneCall(p).name, EmptyDict, calls[p].user_role,
                                calls[p].user_id, calls[p].context)
            /\ LET results == calls'[p].tool_results
               IN  /\ Len(results) = Len(calls[p].tool_results) + 1
                   /\ results[Len(results)].role = "tool"
                   /\ results[Len(results)].tool_call_id = DoneCall(p).id
                   /\ results[Len(results)].content = <<"json", DoneCall(p).result>>
            /\ Tail(calls[p].pending) = <<>> =>
                /\ calls'[p].pc = "await_model"
                /\ calls'[p].messages[Len(calls'[p].messages)].tool_call_id
                        = DoneCall(p).id
    ]_vars

\* C14 witness: a doctor's call of get_appointment_details with an
\* unparsable payload ran with the injected doctor_id alone, and the model
\* is asked again
C14_Witness ==
    /\ calls[1].pc = "await_model"
    /\ calls[1].user_role = "doctor"
    /\ \E n \in DOMAIN calls[1].executed :
        /\ Has(calls[1].executed[n].raw, "text")
        /\ calls[1].executed[n].arguments = [doctor_id |-> <<"doctor", 1>>]
        /\ ~Has(calls[1].executed[n].result, "error")

----------------------------------------------------------------------------
(* Claims about what a message leaves in the database *)

\* C15: each process_message call that returns normally adds exactly one
\* Prompt Record with success=true carrying the prompt, the final answer and
\* tools_used; a call that fails adds none; no operation modifies or removes
\* an existing Prompt Record.
C15_PromptRecordAppendOnly ==
    [][IF last'.op = "process_message" /\ ~last'.raised
       THEN /\ Len(prompts') = Len(prompts) + 1
            /\ SubSeq(prompts', 1, Len(prompts)) = prompts
            /\ LET record == prompts'[Len(prompts')]
               IN  /\ record.success = TRUE
                   /\ record.prompt = calls[last'.p].user_message
                   /\ record.response = last'.result.message
                   /\ record.tools_used = last'.result.tools_used
                   /\ record.user_id = last'.user_id
                   /\ record.session_id = last'.result.session_id
       ELSE prompts' = prompts
    ]_vars

\* C15 witness: the second answered message of a behaviour, with a tool
\* round, left the second Prompt Record
C15_Witness ==
    /\ Returned
    /\ Len(prompts) = 2
    /\ prompts[2].tools_used # <<>>
    /\ prompts[2].response = last.result.message
    /\ prompts[1].success

\* the step is a model call of request slot p that raises
ModelFailure(p) ==
    /\ calls[p].pc = "await_model"
    /\ last'.op = "process_message"
    /\ last'.p = p
    /\ last'.raised

\* C16: process_message appends the new user turn (content and timestamp)
\* to the session's durable history before the first model invocation, so
\* that when the model call then fails the stored session row still carries
\* that user turn.
C16_UserTurnDurable ==
    [][\A p \in Procs :
        ModelFailure(p) =>
            \E i \in ActiveRows(conversations', calls[p].user_id,
                                calls[p].session_id) :
                LET stored == conversations'[i].messages
                IN  /\ stored # <<>>
                    /\ stored[Len(stored)] =
                        [role |-> "user", content |-> calls[p].user_message,
                         timestamp |-> Now]
    ]_vars

----------------------------------------------------------------------------
(* Bookings with collaborators that fail *)

\* which collaborators raise: none, the calendar, the mail service
EnvInputs ==
    {EnvOk,
     [cal |-> TRUE, mail |-> FALSE, notify |-> FALSE],
     [cal |-> FALSE, mail |-> TRUE, notify |-> TRUE]}

\* the booking, moving and cancelling calls of the tool server
BookingInputs ==
    {[name |-> "schedule_appointment",
      args |-> [doctor_name |-> <<"b">>, patient_email |-> "pat1@x",
                appointment_datetime |-> Iso(t)]] : t \in TimeInputs}
    \cup
    {[name |-> "reschedule_appointment",
      args |-> [appointment_id |-> a, new_datetime |-> Iso(570)]] :
        a \in AppointmentIdInputs}
    \cup
    {[name |-> "reschedule_appointment",
      args |-> [appointment_id |-> ApptId(1), new_datetime |-> Iso(540),
                notify_patient |-> FALSE]]}
    \cup
    {[name |-> "cancel_appointment", args |-> [appointment_id |-> a]] :
        a \in AppointmentIdInputs}

DegradedCall ==
    \E call \in BookingInputs, env \in EnvInputs :
        ExecuteToolCall(call.name, call.args, env)

NextDegraded == DegradedCall

SpecDegraded == Init /\ [][NextDegraded]_vars

\* C17: in schedule_appointment, once the booking record is created, a
\* failure of the calendar-event creation or of the confirmation email never
\* removes the booking and never turns the result into a failure: a call
\* that books with working collaborators books with failing ones, returns
\* success:true and leaves the appointment stored with status scheduled.
C17_BookingSurvivesCollaborators ==
    [][ToolStep("schedule_appointment") =>
        LET ok == ExecuteTool(last'.name, last'.args, appointments, EnvOk)
        IN  (~ok.raised /\ Get(ok.val, "success", FALSE)) =>
                /\ ~last'.raised
                /\ Get(last'.result, "success", FALSE)
                /\ Len(appointments') = Len(appointments) + 1
                /\ SubSeq(appointments', 1, Len(appointments)) = appointments
                /\ LET row == appointments'[Len(appointments')]
                   IN  /\ row.id = last'.result.appointment_id
                       /\ row.status = Scheduled
                       /\ row.scheduled_time
                            = ParseDateTime(last'.args.appointment_datetime)
    ]_vars

\* C17 witness: a booking made while the calendar failed, and one made while
\* the mail service failed, are both stored as scheduled
C17_Witness ==
    /\ last.op = "execute_tool"
    /\ last.name = "schedule_appointment"
    /\ Get(last.result, "success", FALSE)
    /\ Len(appointments) = 2
    /\ \E i, j \in DOMAIN appointments :
        /\ ~appointments[i].google_calendar_event_id
        /\ appointments[i].status = Scheduled
        /\ ~appointments[j].confirmation_sent
        /\ appointments[j].status = Scheduled

\* the step is a call of the tool that changed the appointment it names
Committed(name) ==
    /\ ToolStep(name)
    /\ appointments' # appointments

\* C18: in reschedule_appointment and cancel_appointment, a failure while
\* updating the calendar or notifying the patient does not fail the parent
\* operation: whenever the new timestamp or status has been committed, the
\* tool result is success:true and not an error payload.
C18_ChangeSurvivesCollaborators ==
    [][(Committed("reschedule_appointment") \/ Committed("cancel_appointment")) =>
            /\ ~Has(last'.result, "error")
            /\ Get(last'.result, "success", FALSE)
    ]_vars

----------------------------------------------------------------------------
(* Claims about the doctor lookup by name *)

\* the first row of doctors that the name matches
FirstMatch(name) ==
    LET found == DoctorsByName(name)
    IN  doctors[CHOOSE i \in found : \A j \in found : i <= j]

\* the step is a call of the tool with the keywords its handler accepts and
\* a doctor name that matches at least one doctor
NamedDoctorCall(name) ==
    /\ ToolStep(name)
    /\ Required(name) \subseteq DOMAIN last'.args
    /\ DOMAIN last'.args \subseteq Required(name) \cup Optional(name)
    /\ DoctorsByName(last'.args.doctor_name) # {}

\* C19: schedule_appointment and check_doctor_availability resolve the
\* doctor by case-insensitive substring match on the name, and when several
\* doctors match the first match is used: the operation proceeds with that
\* doctor and does not fail.
C19_FirstMatchWins ==
    [][/\ NamedDoctorCall("check_doctor_availability") =>
            /\ ~Has(last'.result, "error")
            /\ Get(last'.result, "success", FALSE)
            /\ last'.result.doctor_name
                    = FirstMatch(last'.args.doctor_name).name
       /\ (/\ NamedDoctorCall("schedule_appointment")
           /\ Cardinality(Held(appointments,
                    FirstMatch(last'.args.doctor_name).id,
                    ParseDateTime(last'.args.appointment_datetime),
                    {Scheduled})) <= 1) =>
            /\ ~Has(last'.result, "error")
            /\ Get(last'.result, "success", FALSE) =>
                last'.result.details.doctor
                    = FirstMatch(last'.args.doctor_name).name
    ]_vars

----------------------------------------------------------------------------
(* Claims about the in-flight message list *)

\* from index i on, a message list is a sequence of rounds: an assistant
\* turn with k > 0 tool-call requests, then k tool-result turns in request
\* order, each with the id and the name of its request
RECURSIVE RoundsFrom(_, _)
RoundsFrom(messages, i) ==
    IF i > Len(messages) THEN TRUE
    ELSE LET m == messages[i]
             k == Len(m.tool_calls)
         IN  /\ m.role = "assistant"
             /\ Has(m, "tool_calls")
             /\ k > 0
             /\ i + k <= Len(messages)
             /\ \A j \in 1..k :
                    /\ messages[i + j].role = "tool"
                    /\ messages[i + j].tool_call_id = m.tool_calls[j].id
                    /\ messages[i + j].name = m.tool_calls[j].name
             /\ RoundsFrom(messages, i + k + 1)

\* the tool-call requests of the assistant turns of a message list
RECURSIVE RequestedCalls(_)
RequestedCalls(messages) ==
    IF messages = <<>> THEN <<>>
    ELSE LET m == Head(messages)
         IN  (IF m.role = "assistant" /\ Has(m, "tool_calls")
              THEN m.tool_calls ELSE <<>>)
             \o RequestedCalls(Tail(messages))

\* the tool-result turns of a message list
ToolTurns(messages) == SelectSeq(messages, LAMBDA m : m.role = "tool")

\* C20: for each model response with k tool calls, the in-flight message
\* list grows by one assistant turn carrying the k raw tool-call requests
\* followed by k tool-result turns, one per call, in request order, each
\* keyed by the id of its call; every requested call is executed exactly
\* once before the next model call.
C20_MessageListRounds ==
    \A p \in Procs :
        calls[p].pc = "await_model" =>
            LET c == calls[p]
                prompt == Len(ExpectedPrompt(LoadedTurns(c), c.user_message))
                requested == RequestedCalls(c.messages)
                turns == ToolTurns(c.messages)
            IN  /\ RoundsFrom(c.messages, prompt + 1)
                /\ Len(c.executed) = Len(requested)
                /\ Len(turns) = Len(requested)
                /\ \A n \in DOMAIN requested :
                    /\ c.executed[n].id = requested[n].id
                    /\ c.executed[n].name = requested[n].name
                    /\ c.executed[n].raw = requested[n].arguments
                    /\ turns[n].content = <<"json", c.executed[n].result>>

\* C20 witness: a response with two tool calls and a later response with
\* one were both taken up, and the model is asked again
C20_Witness ==
    /\ calls[1].pc = "await_model"
    /\ calls[1].model_calls = 2
    /\ Len(calls[1].executed) = 3
    /\ Len(calls[1].messages) = 2 + 3 + 2
    /\ Len(calls[1].messages[3].tool_calls) = 2
    /\ calls[1].messages[3].tool_calls[2].id = "call_2"
    /\ calls[1].messages[5].tool_call_id = "call_2"

----------------------------------------------------------------------------
(* Claims about the arguments of a booking made through the agent *)

\* the email of the user of request slot p
CallerEmail(p) == TheOne({u \in Users : u.id = calls[p].user_id}).email

\* C21: for schedule_appointment calls, with role=patient and no
\* patient_email in the arguments the caller's own email is injected; with no
\* doctor_name in the arguments and a last doctor name in context (one
\* captured earlier in the same model response included) that name is
\* injected; an argument the model supplied is never overwritten, and nothing
\* else is added.
C21_BookingInjection ==
    [][\A p \in Procs :
        (ToolDone(p) /\ DoneCall(p).name = "schedule_appointment") =>
            LET e == DoneCall(p)
                requested == ParseArguments(e.raw)
                context == calls[p].context
                email == calls[p].user_role = "patient"
                            /\ ~Has(requested, "patient_email")
                name == ~Has(requested, "doctor_name")
                            /\ Has(context, "last_doctor_name")
            IN  /\ \A k \in DOMAIN requested : e.arguments[k] = requested[k]
                /\ DOMAIN e.arguments = DOMAIN requested
                        \cup (IF email THEN {"patient_email"} ELSE {})
                        \cup (IF name THEN {"doctor_name"} ELSE {})
                /\ email => e.arguments["patient_email"] = CallerEmail(p)
                /\ name => e.arguments["doctor_name"] = context["last_doctor_name"]
    ]_vars

\* C21 witness: one model response asked for an availability check and then
\* for a booking without doctor name and email; the booking ran with the
\* doctor of the check and the caller's email
C21_Witness ==
    /\ InFlight(1)
    /\ calls[1].user_role = "patient"
    /\ Len(calls[1].executed) = 2
    /\ calls[1].model_calls = 1
    /\ calls[1].executed[1].name = "check_doctor_availability"
    /\ calls[1].executed[2].name = "schedule_appointment"
    /\ DOMAIN ParseArguments(calls[1].executed[2].raw) = {"appointment_datetime"}
    /\ Get(calls[1].executed[2].arguments, "doctor_name", <<>>) = <<"A", "b">>
    /\ Get(calls[1].executed[2].arguments, "patient_email", "") = "pat1@x"
    /\ Get(calls[1].executed[2].result, "success", FALSE)

----------------------------------------------------------------------------
(* Termination of the loop *)

\* C22: process_message has no round cap.  It reaches DONE only by a model
\* response without tool calls, which commits the session and writes the
\* Prompt Record; a response with tool calls, whatever the number of rounds
\* before it, is executed call by call and followed by a further model call,
\* and neither ends the call nor writes a Prompt Record nor commits the
\* session.
C22_NoRoundCap ==
    [][\A p \in Procs :
        /\ (InFlight(p) /\ calls'[p].pc = "idle" /\ ~last'.raised) =>
            /\ calls[p].pc = "await_model"
            /\ last'.result.tools_used = calls[p].tools_used
            /\ Len(prompts') = Len(prompts) + 1
            /\ conversations' # conversations
        /\ (calls[p].pc = "await_model" /\ calls'[p].pc # "idle") =>
            /\ calls'[p].pc = "execute_tools"
            /\ calls'[p].pending # <<>>
            /\ calls'[p].model_calls = calls[p].model_calls + 1
            /\ prompts' = prompts
            /\ conversations' = conversations
        /\ (calls[p].pc = "execute_tools") =>
            /\ \/ /\ calls'[p].pc = "execute_tools"
                  /\ calls'[p].pending = Tail(calls[p].pending)
                  /\ calls'[p].pending # <<>>
               \/ /\ calls'[p].pc = "await_model"
                  /\ Len(calls[p].pending) = 1
            /\ calls'[p].model_calls = calls[p].model_calls
            /\ prompts' = prompts
            /\ conversations' = conversations
    ]_vars

\* C22 witness: after as many tool rounds as the exploration allows the call
\* is still waiting for the model, nothing is committed and no Prompt Record
\* is written
C22_Witness ==
    /\ calls[1].pc = "await_model"
    /\ calls[1].model_calls = MaxRounds
    /\ Len(calls[1].executed) >= MaxRounds
    /\ prompts = <<>>
    /\ conversations = <<>>

----------------------------------------------------------------------------
(* Two requests on one session *)

\* messages of one (user, session) pair the exploration follows
MaxRace == 3

\* the text each of the two requests sends
RaceMessage == << <<"first">>, <<"second">> >>

\* Prompt Records written for a user
PromptsOf(user_id) == {i \in 1..Len(prompts) : prompts[i].user_id = user_id}

\* calls of a user that have begun and not yet returned
Begun(user_id) ==
    {p \in Procs : calls[p].pc # "idle" /\ calls[p].user_id = user_id}

\* POST /api/chat by either of two requests, whether or not the other one is
\* in flight
RaceMessageBegins ==
    \E p \in Procs, u \in ChatUsers, sid \in SessionInputs :
        /\ Cardinality(PromptsOf(u.id)) + Cardinality(Begun(u.id)) < MaxRace
        /\ PMBegin(p, u, sid, RaceMessage[p])

RaceAnswer == \E p \in Procs : ModelAnswers(p, <<"ok">>)

RaceFails == \E p \in Procs : ModelFails(p)

\* Two requests of the chat endpoint, interleaved in every way
NextRace ==
    \/ RaceMessageBegins
    \/ RaceAnswer
    \/ RaceFails

SpecRace == Init /\ [][NextRace]_vars

\* C23: overlapping calls on one (user, session) pair are neither serialized
\* nor detected.  A call that gets its final answer returns successfully
\* whatever the other call did meanwhile; it stores the history it loaded at
\* its beginning with its own two turns, in place of whatever is stored at
\* that time, and a call that found no active row inserts one even when an
\* active row of the pair exists by then.
C23_LastWriterWins ==
    [][\A p \in Procs :
        (calls[p].pc = "await_model" /\ calls'[p].pc = "idle") =>
            \/ last'.raised /\ last'.error = <<"ModelBoundaryFailure">>
                            /\ conversations' = conversations
            \/ /\ ~last'.raised
               /\ Len(conversations'[last'.row].messages)
                        = Len(calls[p].conv_messages) + 1
               /\ SubSeq(conversations'[last'.row].messages, 1,
                         Len(calls[p].conv_messages)) = calls[p].conv_messages
               /\ conversations'[last'.row].is_active
               /\ calls[p].row = 0 => /\ Len(conversations') = Len(conversations) + 1
                                      /\ last'.row = Len(conversations')
               /\ calls[p].row # 0 => last'.row = calls[p].row
    ]_vars

\* C23 witness: both requests are back; for the patient two concurrent first
\* messages left two active rows of the pair, and for the doctor three
\* returned calls, two of them overlapping, left a history of two exchanges
C23_Witness ==
    /\ \A p \in Procs : calls[p].pc = "idle"
    /\ Cardinality(ActiveRows(conversations, UserPat1, <<"s", 1>>)) = 2
    /\ Cardinality(PromptsOf(UserPat1)) = 2
    /\ Cardinality(PromptsOf(UserDoc1)) = 3
    /\ \A i \in PromptsOf(UserDoc1) : prompts[i].success
    /\ \E i \in ActiveRows(conversations, UserDoc1, <<"s", 1>>) :
            /\ Len(conversations[i].messages) = 4
            /\ SessionRows(conversations, UserDoc1, <<"s", 1>>) = {i}

----------------------------------------------------------------------------
(* The booking operations together: tool server and REST routes *)

\* booking, moving, cancelling and listing as the tool server receives them
BookingToolInputs ==
    {[name |-> "check_doctor_availability",
      args |-> [doctor_name |-> <<"b">>, date |-> <<"iso", Today>>]]}
    \cup
    {[name |-> "schedule_appointment",
      args |-> [doctor_name |-> <<"b">>, patient_email |-> "pat1@x",
                appointment_datetime |-> Iso(t)]] : t \in TimeInputs}
    \cup
    {[name |-> "reschedule_appointment",
      args |-> [appointment_id |-> ApptId(n), new_datetime |-> Iso(t)]] :
        n \in 1..MaxAppts, t \in TimeInputs}
    \cup
    {[name |-> "cancel_appointment", args |-> [appointment_id |-> ApptId(n)]] :
        n \in 1..MaxAppts}

\* bodies of POST /api/appointments/, sent by the second patient
CreateInputs ==
    {[doctor_id |-> <<"doctor", 1>>, scheduled_time |-> t] : t \in TimeInputs}

BookingTool ==
    \E call \in BookingToolInputs : ExecuteToolCall(call.name, call.args, EnvOk)

BookingCreate ==
    \E data \in CreateInputs, u \in {v \in Users : v.id = UserPat2} :
        RestCreate(data, u)

BookingUpdate ==
    \E n \in 1..MaxAppts, u \in UpdateInputs : RestUpdate(ApptId(n), u)

BookingCancel ==
    \E n \in 1..MaxAppts, u \in {v \in Users : v.id \in {UserPat2, UserDoc1}} :
        RestCancel(ApptId(n), u)

NextBookings ==
    \/ BookingTool
    \/ BookingCreate
    \/ BookingUpdate
    \/ BookingCancel

SpecBookings == Init /\ [][NextBookings]_vars

\* C24: after any sequence of schedule, reschedule and cancel tool calls and
\* of the REST create, update and cancel operations, no two appointments of
\* one doctor with status scheduled or rescheduled share a timestamp.
C24_NoDoubleBooking ==
    \A i, j \in DOMAIN appointments :
        (/\ i # j
         /\ appointments[i].doctor_id = appointments[j].doctor_id
         /\ appointments[i].status \in {Scheduled, Rescheduled}
         /\ appointments[j].status \in {Scheduled, Rescheduled})
            => appointments[i].scheduled_time # appointments[j].scheduled_time

\* the timestamp a caller forms from the date and a slot of a listing
SlotTime(date, slot) ==
    date * MinDay
        + ((slot[1] % 12) + (IF slot[3] = "PM" THEN 12 ELSE 0)) * 60 + slot[2]

\* check_doctor_availability on the table appts lists the slot of time t
Listed(appts, doctor_name, t) ==
    LET out == CheckAvailability([doctor_name |-> doctor_name,
                                  date |-> <<"iso", DayOf(t)>>], appts)
    IN  /\ ~out.raised
        /\ out.val.success
        /\ \E k \in DOMAIN out.val.available_slots :
                SlotTime(out.val.date, out.val.available_slots[k]) = t

\* the latest operation was a successful tool call of that name
ToolSucceeded(l, name) ==
    /\ l.op = "execute_tool"
    /\ l.name = name
    /\ ~l.raised
    /\ Has(l.result, "success")
    /\ l.result.success

\* C25: a slot that check_doctor_availability lists can be booked by an
\* immediately following schedule_appointment for a registered patient;
\* after that booking the slot is not listed; after cancel_appointment on
\* that booking it is listed again.
C25_ListBookCancel ==
    [][/\ (/\ ToolSucceeded(last, "check_doctor_availability")
           /\ ToolStep("schedule_appointment")
           /\ last'.args.doctor_name = last.args.doctor_name
           /\ \E k \in DOMAIN last.result.available_slots :
                last'.args.appointment_datetime =
                    Iso(SlotTime(last.result.date, last.result.available_slots[k])))
          => /\ ToolSucceeded(last', "schedule_appointment")
             /\ Len(appointments') = Len(appointments) + 1
             /\ appointments'[Len(appointments')].status = Scheduled
             /\ appointments'[Len(appointments')].scheduled_time
                    = last'.args.appointment_datetime.iso
             /\ Listed(appointments, last'.args.doctor_name,
                       last'.args.appointment_datetime.iso)
             /\ ~Listed(appointments', last'.args.doctor_name,
                        last'.args.appointment_datetime.iso)
       /\ (/\ ToolSucceeded(last, "schedule_appointment")
           /\ Listed(SubSeq(appointments, 1, Len(appointments) - 1),
                     last.args.doctor_name, last.args.appointment_datetime.iso)
           /\ ToolStep("cancel_appointment")
           /\ last'.args.appointment_id = last.result.appointment_id)
          => /\ ToolSucceeded(last', "cancel_appointment")
             /\ ~Listed(appointments, last.args.doctor_name,
                        last.args.appointment_datetime.iso)
             /\ Listed(appointments', last.args.doctor_name,
                       last.args.appointment_datetime.iso)
    ]_vars

\* C25 witness: the booking of the first patient, made by the tool server,
\* has just been cancelled by it, and its slot is listed
C25_Witness ==
    /\ ToolSucceeded(last, "cancel_appointment")
    /\ last.args.appointment_id = ApptId(1)
    /\ Len(appointments) = 1
    /\ appointments[1].patient_id = <<"patient", 1>>
    /\ appointments[1].status = Cancelled
    /\ appointments[1].scheduled_time = 570
    /\ Listed(appointments, <<"b">>, 570)

\* C26: an appointment with status cancelled keeps that status: no later
\* reschedule_appointment, cancel_appointment or REST update makes it
\* scheduled or rescheduled again.
C26_CancelledStaysCancelled ==
    [][\A i \in DOMAIN appointments :
            appointments[i].status = Cancelled =>
                appointments'[i].status \notin {Scheduled, Rescheduled}]_vars

----------------------------------------------------------------------------
(* The slot scan as a loop, on the doctor records update_doctor stores *)

\* iterations of the scan the exploration follows
MaxScan == 13

\* update_doctor(doctor_id, update_data, current_user): update_data is the
\* dict of the fields the request sets (model_dump(exclude_unset=True)),
\* written to the row field by field with no check of their values
UpdateDoctor(doctor_id, update_data, current_user) ==
    LET found == Rows(doctors, LAMBDA d : d.id = doctor_id)
        old == doctors[TheOne(found)]
        new == [k \in DOMAIN old |->
                    IF k \in DOMAIN update_data THEN update_data[k] ELSE old[k]]
    IN  /\ IF found = {}
           THEN /\ doctors' = doctors
                /\ last' = [op |-> "update_doctor", http |-> 404]
           ELSE IF old.user_id # current_user.id
           THEN /\ doctors' = doctors
                /\ last' = [op |-> "update_doctor", http |-> 403]
           ELSE /\ doctors' = [doctors EXCEPT ![TheOne(found)] = new]
                /\ last' = [op |-> "update_doctor", http |-> 200]
        /\ UNCHANGED <<appointments, conversations, prompts, calls>>

\* the position of _check_availability at the head of its while loop, for
\* the first of the windows in rest
ScanAt(doctor, target, rest, booked, slots) ==
    [op |-> "scan",
     current_time |-> target * MinDay + Head(rest).start,
     slot_end |-> target * MinDay + Head(rest).end,
     duration |-> doctor.consultation_duration,
     rest |-> Tail(rest), target |-> target, booked |-> booked,
     slots |-> slots]

\* _check_availability(doctor_name, date) up to its first window (lines
\* 252-312) for a doctor who works on that day
ScanBegin(args) ==
    LET target == ParseDate(args.date)
        found == DoctorsByName(args.doctor_name)
        doctor == doctors[TheOne(found)]
        day_slots == doctor.available_slots[target % 7]
        booked == {appointments[i].scheduled_time : i \in
                    Rows(appointments, LAMBDA a :
                        /\ a.doctor_id = doctor.id
                        /\ DayOf(a.scheduled_time) = target
                        /\ a.status \in {Scheduled, Rescheduled})}
    IN  /\ last.op # "scan"
        /\ Cardinality(found) = 1
        /\ day_slots # <<>>
        /\ last' = ScanAt(doctor, target, day_slots, booked, <<>>)
        /\ UNCHANGED <<doctors, appointments, conversations, prompts, calls>>

\* one evaluation of the while condition of lines 314-317: an iteration, the
\* next window, or the return of the listing
ScanStep ==
    /\ last.op = "scan"
    /\ IF last.current_time + last.duration <= last.slot_end
       THEN /\ Len(last.slots) < MaxScan
            /\ last' = [last EXCEPT
                    !.slots = IF last.current_time \notin last.booked
                              THEN Append(@, Fmt12(last.current_time)) ELSE @,
                    !.current_time = @ + last.duration]
       ELSE IF last.rest # <<>>
       THEN last' = [last EXCEPT
                    !.current_time = last.target * MinDay + Head(last.rest).start,
                    !.slot_end = last.target * MinDay + Head(last.rest).end,
                    !.rest = Tail(last.rest)]
       ELSE last' = [op |-> "scan_done", available_slots |-> last.slots]
    /\ UNCHANGED <<doctors, appointments, conversations, prompts, calls>>

\* values of consultation_duration a request may carry
DurationUpdates == {-30, 0, 15, 30, 60}

\* weekly patterns a request may carry
WindowUpdates ==
    {[NoWindows EXCEPT ![0] = w] :
        w \in { << [start |-> 540, end |-> 720] >>,
                << [start |-> 540, end |-> 600], [start |-> 660, end |-> 720] >>,
                << [start |-> 720, end |-> 540] >> }}

DoctorUpdateInputs ==
    {[consultation_duration |-> d] : d \in DurationUpdates}
    \cup {[available_slots |-> w] : w \in WindowUpdates}

DoctorUpdate ==
    \E id \in {<<"doctor", 1>>, <<"doctor", 9>>}, update_data \in DoctorUpdateInputs,
       u \in {v \in Users : v.role = "doctor"} :
        /\ last.op # "scan"
        /\ UpdateDoctor(id, update_data, u)

ScanCall ==
    ScanBegin([doctor_name |-> <<"b">>, date |-> <<"iso", Today>>])

NextScan ==
    \/ DoctorUpdate
    \/ ScanCall
    \/ ScanStep

SpecScan == Init /\ [][NextScan]_vars

\* C27: the slot scan of check_doctor_availability terminates for every
\* doctor record update_doctor can store, consultation_duration 0 and
\* negative included: every iteration of its loop brings current_time
\* nearer to slot_end, which it never passes.
C27_ScanTerminates ==
    [][(last.op = "scan" /\ last'.op = "scan" /\ last'.rest = last.rest) =>
            /\ last'.slot_end - last'.current_time
                    < last.slot_end - last.current_time
            /\ last'.slot_end - last'.current_time >= 0
    ]_vars

----------------------------------------------------------------------------
(* Claims about what a returned message leaves in the session store *)

\* C28: when process_message returns, the context map of its result equals
\* the context map stored for the session, for every role and every number
\* of tool rounds, a doctor-role call without a tool request included.
C28_ReturnedContextStored ==
    [][(last'.op = "process_message" /\ ~last'.raised) =>
            last'.result.context = conversations'[last'.row].context]_vars

\* C29: with one call in flight at a time, each successful process_message
\* extends the stored history of its session by exactly two turns, the user
\* turn and then the final assistant turn, whatever the number of tool
\* rounds; the stored history alternates user and assistant turns, holds no
\* tool turn, and no step changes or reorders an earlier turn.
C29_TwoTurnsPerMessage ==
    /\ [][(last'.op = "process_message" /\ ~last'.raised) =>
            LET c == calls[last'.p]
                before == IF c.row = 0 THEN <<>>
                          ELSE conversations[c.row].messages
            IN  /\ conversations'[last'.row].messages = before \o
                     << [role |-> "user", content |-> c.user_message,
                         timestamp |-> Now],
                        [role |-> "assistant", content |-> last'.result.message,
                         timestamp |-> Now,
                         tools_used |-> last'.result.tools_used] >>
                /\ \A i \in DOMAIN conversations :
                        i # last'.row =>
                            conversations'[i].messages = conversations[i].messages
       ]_vars
    /\ [][\A i \in DOMAIN conversations :
            /\ i \in DOMAIN conversations'
            /\ Len(conversations'[i].messages) >= Len(conversations[i].messages)
            /\ SubSeq(conversations'[i].messages, 1,
                      Len(conversations[i].messages)) = conversations[i].messages
       ]_vars
    /\ [](\A i \in DOMAIN conversations :
            \A k \in DOMAIN conversations[i].messages :
                conversations[i].messages[k].role =
                    (IF k % 2 = 1 THEN "user" ELSE "assistant"))

\* C29 witness: the second message of a session has returned after a tool
\* round, and the session holds four turns
C29_Witness ==
    /\ Returned
    /\ last.model_calls = 2
    /\ last.result.tools_used # <<>>
    /\ Len(prompts) = 2
    /\ prompts[1].session_id = prompts[2].session_id
    /\ prompts[1].user_id = prompts[2].user_id
    /\ Len(conversations[last.row].messages) = 4

----------------------------------------------------------------------------
(* Claims about whose appointment a booking of the agent is *)

\* C30: under role=patient every appointment created by a
\* schedule_appointment call of process_message belongs to the patient
\* profile of the calling user, whatever arguments the model puts in the
\* tool call.
C30_OwnBookingsOnly ==
    [][\A p \in Procs :
        (/\ ToolDone(p)
         /\ calls[p].user_role = "patient"
         /\ DoneCall(p).name = "schedule_appointment"
         /\ Len(appointments') = Len(appointments) + 1) =>
            \E q \in Patients :
                /\ q.user_id = calls[p].user_id
                /\ appointments'[Len(appointments')].patient_id = q.id
    ]_vars

====
